---- MODULE Spec2Model ----
(***************************************************************************)
(* FTE report generator (console program main.py / functions.py /          *)
(* options4.py and the Streamlit front end app.py / web_functions.py).     *)
(*                                                                         *)
(* Representation.                                                         *)
(*  - A text cell (Sec Name, Sec Divisions, Sec Faculty Info, Course Code) *)
(*    is a sequence of one-character strings; a missing text cell (pandas  *)
(*    NaN) is NaNStr.                                                      *)
(*  - A numeric cell (Capacity, FTE Count, Contact Hours) is a natural     *)
(*    number, a missing one is NaN.  Meeting Times is a text cell that the *)
(*    code only sorts and copies: it is modelled by its rank in that order.*)
(*  - Total FTE is kept in thousandths (1.875 is 1875), Generated FTE in   *)
(*    thousandths of a dollar (3611.25 is 3611250).                        *)
(*  - "X Sec Delivery Method" is only copied by the code and is left out.  *)
(***************************************************************************)
EXTENDS Integers, Sequences, FiniteSets, TLC

VARIABLES
  program,      \* "console" (main.py) or "web" (app.py): the program that runs
  file_in,      \* the uploaded section table (deanDailyCsar)
  fte_file_in,  \* the contact-hours reference table
  fte_tier,     \* the tier table (FTE_Tier.xlsx)
  dean_df,      \* the merged dataset readfile returns
  loaded,       \* the dataset has been read
  report,       \* what the last report request produced
  missing       \* the input files that are not in the directory of main.py

vars == <<program, file_in, fte_file_in, fte_tier, dean_df, loaded, report, missing>>

(***************************************************************************)
(* Characters and text                                                     *)
(***************************************************************************)
Upper == {"A","B","C","D","E","F","G","H","I","J","K","L","M",
          "N","O","P","Q","R","S","T","U","V","W","X","Y","Z"}

Lower == {"a","b","c","d","e","f","g","h","i","j","k","l","m",
          "n","o","p","q","r","s","t","u","v","w","x","y","z"}

Digit == {"0","1","2","3","4","5","6","7","8","9"}

\* The characters in code-point order (the order Python compares str by).
Alphabet == <<" ", "-", ".",
              "0","1","2","3","4","5","6","7","8","9",
              "A","B","C","D","E","F","G","H","I","J","K","L","M",
              "N","O","P","Q","R","S","T","U","V","W","X","Y","Z",
              "a","b","c","d","e","f","g","h","i","j","k","l","m",
              "n","o","p","q","r","s","t","u","v","w","x","y","z">>

Ord == [c \in {Alphabet[i] : i \in 1..Len(Alphabet)} |->
          CHOOSE i \in 1..Len(Alphabet) : Alphabet[i] = c]

\* pandas NaN in a text column / in a numeric column
NaNStr == <<"NaN">>

NaN == -1

IsNaN(x) == x = NaN

SetMin(S) == CHOOSE x \in S : \A y \in S : x <= y

\* Python's str < str
StrLess(a, b) ==
  LET n == IF Len(a) < Len(b) THEN Len(a) ELSE Len(b)
      d == {i \in 1..n : a[i] # b[i]}
  IN  IF d = {} THEN Len(a) < Len(b)
      ELSE Ord[a[SetMin(d)]] < Ord[b[SetMin(d)]]

\* sort_values key order of a text column: ascending, NaN last
TextKeyLess(a, b) ==
  IF a = NaNStr THEN FALSE ELSE IF b = NaNStr THEN TRUE ELSE StrLess(a, b)

\* sort_values key order of a ranked column: ascending, NaN last
NumKeyLess(a, b) ==
  IF IsNaN(a) THEN FALSE ELSE IF IsNaN(b) THEN TRUE ELSE a < b

\* str.upper() / str.lower()
UpperChar(c) ==
  IF c \in Lower THEN Alphabet[Ord[c] - 26] ELSE c

LowerChar(c) ==
  IF c \in Upper THEN Alphabet[Ord[c] + 26] ELSE c

StrUpper(s) == [i \in 1..Len(s) |-> UpperChar(s[i])]

StrLower(s) == [i \in 1..Len(s) |-> LowerChar(s[i])]

\* s[:3]
Prefix3(s) == SubSeq(s, 1, IF Len(s) < 3 THEN Len(s) ELSE 3)

\* Stable sort of a sequence by a strict key order (DataFrame.sort_values on
\* several columns is a lexsort, which keeps the order of equal keys).
StableSort(seq, Less(_, _)) ==
  LET n == Len(seq)
      Before(j, i) == Less(seq[j], seq[i]) \/ (~Less(seq[i], seq[j]) /\ j < i)
      Rank(i) == Cardinality({j \in 1..n : Before(j, i)}) + 1
  IN  [k \in 1..n |-> seq[CHOOSE i \in 1..n : Rank(i) = k]]

\* a local variable: value is computed once and named in the body
With(value, Body(_)) == Body(value)

\* boolean-mask row selection df[mask]
RECURSIVE SelectSeqIdx(_, _, _)
SelectSeqIdx(seq, Keep(_), i) ==
  IF i > Len(seq) THEN <<>>
  ELSE IF Keep(seq[i]) THEN <<seq[i]>> \o SelectSeqIdx(seq, Keep, i + 1)
  ELSE SelectSeqIdx(seq, Keep, i + 1)

Filter(seq, Keep(_)) == SelectSeqIdx(seq, Keep, 1)

(***************************************************************************)
(* Course-code extraction (the four patterns the code uses)                *)
(***************************************************************************)
\* [A-Z]{3}-\d{3} matches s at position i
CodeAt(s, i) ==
  /\ i >= 1 /\ i + 6 <= Len(s)
  /\ \A k \in 0..2 : s[i + k] \in Upper
  /\ s[i + 3] = "-"
  /\ \A k \in 4..6 : s[i + k] \in Digit

\* Series.str.extract(r"([A-Z]{3}-\d{3})"): the leftmost match, NaN if none
ExtractCode(s) ==
  IF s = NaNStr \/ ~\E i \in 1..Len(s) : CodeAt(s, i) THEN NaNStr
  ELSE LET i == SetMin({j \in 1..Len(s) : CodeAt(s, j)})
       IN  SubSeq(s, i, i + 6)

\* Series.str.extract(r"([A-Z]{3}-\d{3}[A-Z]?)")
ExtractCodeVariant(s) ==
  IF s = NaNStr \/ ~\E i \in 1..Len(s) : CodeAt(s, i) THEN NaNStr
  ELSE LET i == SetMin({j \in 1..Len(s) : CodeAt(s, j)})
       IN  IF i + 7 <= Len(s) /\ s[i + 7] \in Upper
           THEN SubSeq(s, i, i + 7) ELSE SubSeq(s, i, i + 6)

\* the end of the longest run of characters of C that starts at i (i - 1 if none)
RECURSIVE RunEnd(_, _, _)
RunEnd(s, C, i) ==
  IF i <= Len(s) /\ s[i] \in C THEN RunEnd(s, C, i + 1) ELSE i - 1

\* [A-Z]+-\d+ matches s at position i (greedy; a letter run gives nothing back
\* because the next character has to be the hyphen)
LooseAt(s, i) ==
  LET e == RunEnd(s, Upper, i)
  IN  /\ e >= i
      /\ e + 2 <= Len(s)
      /\ s[e + 1] = "-"
      /\ s[e + 2] \in Digit

\* Series.str.extract(r"([A-Z]+-\d+)")
ExtractCodeLoose(s) ==
  IF s = NaNStr \/ ~\E i \in 1..Len(s) : LooseAt(s, i) THEN NaNStr
  ELSE LET i == SetMin({j \in 1..Len(s) : LooseAt(s, j)})
           e == RunEnd(s, Upper, i)
       IN  SubSeq(s, i, RunEnd(s, Digit, e + 2))

\* re.match(r"^([A-Z]{3}-\d{3}[A-Z]?)", code): NaNStr stands for None
MatchCodeAtStart(s) ==
  IF ~CodeAt(s, 1) THEN NaNStr
  ELSE IF 8 <= Len(s) /\ s[8] \in Upper THEN SubSeq(s, 1, 8) ELSE SubSeq(s, 1, 7)

\* Series.str.contains(pat, case=False, na=False) for a pattern of letters,
\* digits and hyphens (every course code is one)
ContainsNoCase(s, pat) ==
  /\ s # NaNStr
  /\ \E i \in 1..(Len(s) - Len(pat) + 1) :
        StrLower(SubSeq(s, i, i + Len(pat) - 1)) = StrLower(pat)

(***************************************************************************)
(* Total FTE and the reference join (readfile)                             *)
(***************************************************************************)
\* numpy round of num/den to an integer: ties go to the even neighbour
RoundHalfEven(num, den) ==
  LET q == num \div den
      r == num % den
  IN  IF 2 * r < den THEN q
      ELSE IF 2 * r > den THEN q + 1
      ELSE IF q % 2 = 0 THEN q ELSE q + 1

\* Total FTE truncated to 3 decimals instead of rounded
TotalFTETruncated(ch, hc) ==
  IF IsNaN(ch) \/ IsNaN(hc) THEN NaN
  ELSE (ch * 16 * hc * 1000) \div 512

\* ((Contact Hours * 16 * FTE Count) / 512).round(3), in thousandths
TotalFTE(ch, hc) ==
  IF IsNaN(ch) \/ IsNaN(hc) THEN NaN
  ELSE RoundHalfEven(ch * 16 * hc * 1000, 512)

\* fte_file_in["Course Code"] = fte_file_in["Sec Name"].str.extract(...)
RefWithCode(ref) ==
  [i \in 1..Len(ref) |-> [code |-> ExtractCode(ref[i].name), ch |-> ref[i].ch]]

\* the rows one left row yields in pd.merge(how='left', on='Course Code'): one
\* per reference row with the same key (NaN keys match each other), in
\* reference order, or a single row with NaN Contact Hours
JoinRow(r, code, ref) ==
  LET hits == Filter(ref, LAMBDA x : x.code = code)
      Out(ch) == [name |-> r.name, mt |-> r.mt, cap |-> r.cap, hc |-> r.hc,
                  div |-> r.div, fac |-> r.fac, code |-> code, ch |-> ch,
                  tfte |-> TotalFTE(ch, r.hc)]
  IN  IF hits = <<>> THEN << Out(NaN) >>
      ELSE [k \in 1..Len(hits) |-> Out(hits[k].ch)]

RECURSIVE Merge(_, _, _)
Merge(file, ref, i) ==
  IF i > Len(file) THEN <<>>
  ELSE JoinRow(file[i], ExtractCode(file[i].name), ref) \o Merge(file, ref, i + 1)

\* sort_values(["Sec Divisions", "Sec Name", "Sec Faculty Info"])
LoadOrder(a, b) ==
  \/ TextKeyLess(a.div, b.div)
  \/ /\ a.div = b.div
     /\ \/ TextKeyLess(a.name, b.name)
        \/ a.name = b.name /\ TextKeyLess(a.fac, b.fac)

\* readfile(): extract the course codes, join, compute Total FTE, sort
readfile(file, ref) ==
  StableSort(Merge(file, RefWithCode(ref), 1), LoadOrder)

(***************************************************************************)
(* Cells of the report tables                                              *)
(***************************************************************************)
\* '' in a numeric column of a report
Blank == -2

\* '' in a text column of a report
Empty == <<>>

\* current_course = None
NoneStr == <<"None">>

LblTotal == <<"T","o","t","a","l">>

LblTOTAL == <<"T","O","T","A","L">>

LblDivisionTotal == <<"D","I","V","I","S","I","O","N"," ","T","O","T","A","L">>

LblCourseTotal == <<"C","O","U","R","S","E"," ","T","O","T","A","L">>

LblSubtotal == <<"S","U","B","T","O","T","A","L">>

\* base_fte_value / support / base_fte
Support == 1926

\* Python's a != b on course cells: NaN differs from everything, itself included
PyNe(a, b) == a = NaNStr \/ b = NaNStr \/ a # b

\* float(row['Total FTE']) if pd.notna(row['Total FTE']) else 0
OrZero(x) == IF IsNaN(x) THEN 0 ELSE x

\* float addition: NaN absorbs
FAdd(a, b) == IF IsNaN(a) \/ IsNaN(b) THEN NaN ELSE a + b

\* {row['Prefix/Course ID']: row['New Sector'] for ...}.get(key, 0): a dict
\* keeps the last row of a key; skipNaN is the "if pd.notna(prefix)" filter
RECURSIVE LookupFrom(_, _, _, _)
LookupFrom(tier, key, skipNaN, i) ==
  IF i = 0 THEN 0
  ELSE IF tier[i].prefix = key /\ ~(skipNaN /\ key = NaNStr) THEN tier[i].sector
  ELSE LookupFrom(tier, key, skipNaN, i - 1)

\* a lookup that falls back on the first row of the tier table, not on 0
fte_lookupFirstRowDefault(tier, key) ==
  IF \E k \in 1..Len(tier) : tier[k].prefix = key /\ key # NaNStr
  THEN LookupFrom(tier, key, TRUE, Len(tier))
  ELSE tier[1].sector

fte_lookup(tier, key) == LookupFrom(tier, key, TRUE, Len(tier))

StrNan == <<"n","a","n">>

DigitChar(d) == Alphabet[Ord["0"] + d]

RECURSIVE NatStr(_)
NatStr(n) ==
  IF n < 10 THEN << DigitChar(n) >>
  ELSE NatStr(n \div 10) \o << DigitChar(n % 10) >>

\* n in w digits, zero padded
RECURSIVE Padded(_, _)
Padded(n, w) ==
  IF w = 0 THEN <<>> ELSE Padded(n \div 10, w - 1) \o << DigitChar(n % 10) >>

\* "{:.2f}%".format(x) of a percentage, x in hundredths
PctText2(h) ==
  NatStr(h \div 100) \o << "." >> \o Padded(h % 100, 2) \o << "%" >>

\* f"{x}%" of a percentage rounded to 2 decimals, x in hundredths: the repr
\* of a float has the digits the value needs and one decimal at least
PctRepr(h) ==
  NatStr(h \div 100) \o << "." >>
  \o (IF h % 10 = 0 THEN << DigitChar((h % 100) \div 10) >> ELSE Padded(h % 100, 2))
  \o << "%" >>

\* round((FTE Count / Capacity) * 100, 2) in hundredths of a percent, '' when
\* a cell is missing or the capacity is not positive
EnrollmentPer(r) ==
  IF ~IsNaN(r.cap) /\ ~IsNaN(r.hc) /\ r.cap > 0
  THEN RoundHalfEven(r.hc * 10000, r.cap) ELSE Blank

(***************************************************************************)
(* FTE by Division: web_functions.fte_by_div_raw / format_fte_output and   *)
(* functions.division_fte                                                  *)
(***************************************************************************)
\* the 'Total' row of a course
SubtotalRow(total) ==
  [division |-> Empty, course |-> LblTotal, name |-> Empty, mt |-> Blank,
   cap |-> Blank, hc |-> Blank, fac |-> Empty, tfte |-> Blank, enr |-> Empty,
   gen |-> total]

\* sort_values(['Course Code', 'Sec Name'])
CourseOrder(a, b) ==
  \/ TextKeyLess(a.code, b.code)
  \/ a.code = b.code /\ TextKeyLess(a.name, b.name)

\* div_data['Course Code'] = div_data['Sec Name'].str.extract(r'([A-Z]+-\d+)')
WithLooseCode(rows) ==
  [i \in 1..Len(rows) |-> [rows[i] EXCEPT !.code = ExtractCodeLoose(rows[i].name)]]

DivWalkStart ==
  [out |-> <<>>, cur |-> NoneStr, course_total |-> 0, first |-> TRUE,
   orig |-> 0, gen |-> 0]

\* one turn of "for _, row in div_data.iterrows()"; rawTfte says whether the
\* section row shows row['Total FTE'] and "{:.2f}%" of the enrollment
\* (console) or total_fte and f"{enrollment_per}%" (web)
DivStep(st, row, tier, div_code, rawTfte) ==
  LET course   == row.code
      sec      == IF row.name # NaNStr THEN Prefix3(row.name) ELSE Empty
      total    == OrZero(row.tfte)
      adjusted == total * (fte_lookup(tier, sec) + Support)
      close    == PyNe(course, st.cur) /\ st.cur # NoneStr
      section  == [division |-> IF st.first THEN div_code ELSE Empty,
                   course |-> IF PyNe(course, st.cur) THEN course ELSE Empty,
                   name |-> row.name, mt |-> row.mt, cap |-> row.cap,
                   hc |-> row.hc, fac |-> row.fac,
                   tfte |-> IF rawTfte THEN row.tfte ELSE total,
                   enr |-> IF EnrollmentPer(row) = Blank THEN Empty
                           ELSE IF rawTfte THEN PctText2(EnrollmentPer(row))
                           ELSE PctRepr(EnrollmentPer(row)),
                   gen |-> adjusted]
  IN  [out |-> (IF close THEN Append(st.out, SubtotalRow(st.course_total))
                ELSE st.out) \o << section >>,
       cur |-> course,
       course_total |-> (IF close THEN 0 ELSE st.course_total) + adjusted,
       first |-> FALSE,
       orig |-> st.orig + total,
       gen |-> IF close THEN st.gen + st.course_total ELSE st.gen]

RECURSIVE DivWalk(_, _, _, _, _, _)
DivWalk(rows, i, st, tier, div_code, rawTfte) ==
  IF i > Len(rows) THEN st
  ELSE DivWalk(rows, i + 1, DivStep(st, rows[i], tier, div_code, rawTfte),
               tier, div_code, rawTfte)

\* DivFinish without "generated_fte_total += course_total" for the last course
DivFinishForgetsLastCourse(st) ==
  IF st.cur # NoneStr
  THEN [st EXCEPT !.out = Append(st.out, SubtotalRow(st.course_total))]
  ELSE st

\* "Add final course total"
DivFinish(st) ==
  IF st.cur # NoneStr
  THEN [st EXCEPT !.out = Append(st.out, SubtotalRow(st.course_total)),
                  !.gen = st.gen + st.course_total]
  ELSE st

\* fte_by_div_raw(file_in, fte_tier, div_code): (output_df, original, generated),
\* or (None, 0, 0) when the division has no row
fte_by_div_raw(data, tier, div_code) ==
  With(StrUpper(div_code), LAMBDA code :
  With(Filter(data, LAMBDA r : r.div = code), LAMBDA div_data :
    IF div_data = <<>>
    THEN [nodata |-> TRUE, rows |-> <<>>, orig |-> 0, gen |-> 0]
    ELSE With(DivFinish(DivWalk(StableSort(WithLooseCode(div_data), CourseOrder),
                                1, DivWalkStart, tier, code, FALSE)),
              LAMBDA st : [nodata |-> FALSE, rows |-> st.out,
                           orig |-> st.orig, gen |-> st.gen])))

(***************************************************************************)
(* Number formatting                                                       *)
(***************************************************************************)
\* the "," option of format(): thousands separators
RECURSIVE Grouped(_)
Grouped(n) ==
  IF n < 1000 THEN NatStr(n)
  ELSE Grouped(n \div 1000) \o << "," >> \o Padded(n % 1000, 3)

\* "${:,.2f}".format(x), x in thousandths
Money2(x) ==
  IF IsNaN(x) THEN << "$" >> \o StrNan
  ELSE LET c == RoundHalfEven(x, 10)
       IN  << "$" >> \o Grouped(c \div 100) \o << "." >> \o Padded(c % 100, 2)

\* "${:,.3f}".format(x), x in thousandths
Money3(x) ==
  IF IsNaN(x) THEN << "$" >> \o StrNan
  ELSE << "$" >> \o Grouped(x \div 1000) \o << "." >> \o Padded(x % 1000, 3)

\* "{:.2f}".format(x), x in thousandths
Fixed2(x) ==
  IF IsNaN(x) THEN StrNan
  ELSE LET c == RoundHalfEven(x, 10)
       IN  NatStr(c \div 100) \o << "." >> \o Padded(c % 100, 2)

\* the 'DIVISION TOTAL' row
DivisionTotalRow(tfte, gen) ==
  [division |-> Empty, course |-> LblDivisionTotal, name |-> Empty,
   mt |-> Blank, cap |-> Blank, hc |-> Blank, fac |-> Empty, tfte |-> tfte,
   enr |-> Empty, gen |-> gen]

\* format_fte_output(raw_df, original_fte_total, generated_fte_total): every
\* Generated FTE becomes a "$" string, and the division total row is appended
format_fte_output(raw_rows, original_fte_total, generated_fte_total) ==
  [i \in 1..Len(raw_rows) |-> [raw_rows[i] EXCEPT !.gen = Money3(raw_rows[i].gen)]]
  \o << DivisionTotalRow(Blank, Money2(generated_fte_total)) >>

\* sorted(column.dropna().unique())
SortedUnique(S) ==
  LET T == S \ {NaNStr}
  IN  [k \in 1..Cardinality(T) |->
         CHOOSE x \in T : Cardinality({y \in T : StrLess(y, x)}) = k - 1]

ColumnValues(data, Col(_)) == {Col(data[i]) : i \in 1..Len(data)}

\* lines 559-566 of division_fte: numbers become display strings ('' stays)
DivisionShown(rows) ==
  [i \in 1..Len(rows) |->
     [rows[i] EXCEPT !.gen = Money2(rows[i].gen),
                     !.tfte = IF rows[i].tfte = Blank THEN Empty
                              ELSE Fixed2(rows[i].tfte)]]

\* division_fte(file_in) with the division code typed at the prompt
division_fte(data, tier, typed) ==
  With(SortedUnique(ColumnValues(data, LAMBDA r : r.div)), LAMBDA divisions :
  With({k \in 1..Len(divisions) : StrUpper(divisions[k]) = StrUpper(typed)}, LAMBDA valid :
    IF typed = Empty \/ valid = {}
    THEN [nodata |-> TRUE, rows |-> <<>>, shown |-> <<>>, orig |-> 0, gen |-> 0]
    ELSE
  With(divisions[SetMin(valid)], LAMBDA actual :
  With(DivFinish(DivWalk(StableSort(WithLooseCode(Filter(data, LAMBDA r : r.div = actual)),
                                    CourseOrder),
                         1, DivWalkStart, tier, actual, TRUE)), LAMBDA st :
  With(Append(st.out, DivisionTotalRow(st.orig, st.gen)), LAMBDA rows :
    [nodata |-> FALSE, rows |-> rows, shown |-> DivisionShown(rows),
     orig |-> st.orig, gen |-> st.gen])))))

(***************************************************************************)
(* options4: deduplication, Generated FTE, enrollment percentage           *)
(***************************************************************************)
\* the sort with the rows without Meeting Times first (na_position="first")
DedupOrderNaFirst(a, b) ==
  \/ TextKeyLess(a.name, b.name)
  \/ a.name = b.name /\ NumKeyLess(b.mt, a.mt) /\ IsNaN(a.mt)
  \/ a.name = b.name /\ ~IsNaN(a.mt) /\ ~IsNaN(b.mt) /\ a.mt < b.mt

\* sort_values(by=["Sec Name", "Meeting Times"], na_position="last")
DedupOrder(a, b) ==
  \/ TextKeyLess(a.name, b.name)
  \/ a.name = b.name /\ NumKeyLess(a.mt, b.mt)

\* drop_duplicates that drops only the second row of each Sec Name
DropDuplicatesSecondOnly(rows) ==
  LET keep == {i \in 1..Len(rows) :
                 Cardinality({j \in 1..(i - 1) : rows[j].name = rows[i].name}) # 1}
  IN  [k \in 1..Cardinality(keep) |->
         rows[CHOOSE i \in keep : Cardinality({j \in keep : j < i}) = k - 1]]

\* drop_duplicates(subset=["Sec Name"], keep="first")
DropDuplicates(rows) ==
  LET keep == {i \in 1..Len(rows) : \A j \in 1..(i - 1) : rows[j].name # rows[i].name}
  IN  [k \in 1..Cardinality(keep) |->
         rows[CHOOSE i \in keep : Cardinality({j \in keep : j < i}) = k - 1]]

\* remove_duplicate_sections(frame)
remove_duplicate_sections(frame) ==
  DropDuplicates(StableSort(frame, DedupOrder))

\* compute_fte that adds the fixed 1926 whatever support it is given
compute_fteFixedSupport(row, tier, support) ==
  IF row.name = NaNStr \/ Len(row.name) < 3 THEN 0
  ELSE IF IsNaN(row.tfte) THEN 0
  ELSE (LookupFrom(tier, Prefix3(row.name), FALSE, Len(tier)) + 1926) * row.tfte

\* compute_fte(row, courseid_to_funding, support): 0 when the section name is
\* no string of 3 characters or Total FTE is missing (the ValueError branches)
compute_fte(row, tier, support) ==
  IF row.name = NaNStr \/ Len(row.name) < 3 THEN 0
  ELSE IF IsNaN(row.tfte) THEN 0
  ELSE (LookupFrom(tier, Prefix3(row.name), FALSE, Len(tier)) + support) * row.tfte

\* generate_fte(data, tier, support): the 'Generated FTE' column it adds
generate_fte(data, tier, support) ==
  [i \in 1..Len(data) |-> compute_fte(data[i], tier, support)]

StrNA == <<"<","N","A",">">>

\* str() of a percentage that round(1) left with one decimal, t in tenths
PctText1(t) == NatStr(t \div 10) \o << "." >> \o << DigitChar(t % 10) >>

\* str() of (count / capacity) * 100 that no rounding touched: the value
\* itself when one decimal holds it, else its first decimal followed by "..."
\* for the digits that follow
PctUnrounded(count, capacity) ==
  IF (count * 1000) % capacity = 0 THEN PctText1((count * 1000) \div capacity)
  ELSE PctText1((count * 1000) \div capacity) \o << ".", ".", "." >>

\* calculate_enrollment_percentage(count, capacity) of two columns:
\* ((count / capacity.replace(0, pd.NA)) * 100).round(1).astype(str) + "%".
\* Without a 0 in capacity the columns stay numeric: a missing cell gives
\* "nan%".  With a 0, replace() makes capacity an object column, the 0 is
\* <NA>, the quotient is an object column and round() leaves it as it is
calculate_enrollment_percentage(count, capacity) ==
  LET replaced == \E k \in 1..Len(capacity) : capacity[k] = 0
  IN  [i \in 1..Len(count) |->
         (IF capacity[i] = 0 THEN StrNA
          ELSE IF IsNaN(count[i]) \/ IsNaN(capacity[i]) THEN StrNan
          ELSE IF replaced THEN PctUnrounded(count[i], capacity[i])
          ELSE PctText1(RoundHalfEven(count[i] * 1000, capacity[i])))
         \o << "%" >>]

\* Series.sum(): NaN cells are skipped
RECURSIVE SumSkipNa(_)
SumSkipNa(cells) ==
  IF cells = <<>> THEN 0 ELSE OrZero(Head(cells)) + SumSkipNa(Tail(cells))

\* total += cell, for every cell in turn (NaN absorbs)
RECURSIVE SumPlain(_)
SumPlain(cells) ==
  IF cells = <<>> THEN 0
  ELSE FAdd(SumPlain(SubSeq(cells, 1, Len(cells) - 1)), cells[Len(cells)])

Column(rows, Col(_)) == [i \in 1..Len(rows) |-> Col(rows[i])]

(***************************************************************************)
(* FTE per Instructor, console: options4.fte_per_faculty (after the name   *)
(* is selected) and create_instructor_excel                                *)
(***************************************************************************)
\* Series.unique(): the values in the order of their first row
Uniques(seq) ==
  LET first == {i \in 1..Len(seq) : \A j \in 1..(i - 1) : seq[j] # seq[i]}
  IN  [k \in 1..Cardinality(first) |->
         seq[CHOOSE i \in first : Cardinality({j \in first : j < i}) = k - 1]]

\* get_column_uniques that neither drops the missing cells nor converts
get_column_uniquesKeepsMissing(frame) ==
  Uniques([i \in 1..Len(frame) |-> frame[i].name])

\* get_column_uniques(frame, "Sec Name"): data[name].dropna().unique(), each
\* value through str() (a text stays the text it is)
get_column_uniques(frame) ==
  Uniques([i \in 1..Len(Filter(frame, LAMBDA r : r.name # NaNStr)) |->
             Filter(frame, LAMBDA r : r.name # NaNStr)[i].name])

\* get_course_codes(courses): re.match on every element; re.match raises
\* TypeError on an element that is no text (a missing cell is a float)
get_course_codes(courses) ==
  [raised |-> \E i \in 1..Len(courses) : courses[i] = NaNStr,
   codes  |-> {MatchCodeAtStart(courses[i]) : i \in 1..Len(courses)} \ {NaNStr}]

\* sorted(get_course_codes(get_column_uniques(frame, "Sec Name")))
InstructorCourseCodes(frame) ==
  SortedUnique(get_course_codes(get_column_uniques(frame)).codes)

NameOrder(a, b) == TextKeyLess(a.name, b.name)

\* a row of the worksheet (columns A..J)
SheetRow(instructor, course, r) ==
  [instructor |-> instructor, course |-> course, name |-> r.name, mt |-> r.mt,
   cap |-> r.cap, hc |-> r.hc, tfte |-> r.tfte, div |-> r.div, gen |-> r.gen]

SheetTotalRow(tfte, gen) ==
  [instructor |-> Empty, course |-> LblTotal, name |-> Empty, mt |-> Blank,
   cap |-> Blank, hc |-> Blank, tfte |-> tfte, div |-> Empty, gen |-> gen]

\* the worksheet rows of one course: its sections, then its 'Total' row
CourseBlock(data, course, instructor, isFirst) ==
  With(StableSort(Filter(data, LAMBDA r : ContainsNoCase(r.name, course)), NameOrder),
       LAMBDA course_data :
  With(SumPlain(Column(course_data, LAMBDA r : r.tfte)), LAMBDA tfte :
  With(SumPlain(Column(course_data, LAMBDA r : r.gen)), LAMBDA gen :
    [rows |-> [k \in 1..Len(course_data) |->
                 SheetRow(IF isFirst /\ k = 1 THEN instructor ELSE Empty,
                          IF k = 1 THEN course ELSE Empty, course_data[k])]
              \o << SheetTotalRow(tfte, gen) >>,
     tfte |-> tfte, gen |-> gen])))

RECURSIVE InstructorBlocks(_, _, _, _, _)
InstructorBlocks(data, codes, k, instructor, acc) ==
  IF k > Len(codes) THEN acc
  ELSE With(CourseBlock(data, codes[k], instructor, k = 1), LAMBDA b :
         InstructorBlocks(data, codes, k + 1, instructor,
                          [rows |-> acc.rows \o b.rows,
                           tfte |-> FAdd(acc.tfte, b.tfte),
                           gen  |-> FAdd(acc.gen, b.gen)]))

\* create_instructor_excel(data, name, course_codes, instructor_name): the
\* worksheet rows (the grand 'Total' row last) and the two grand totals
create_instructor_excel(data, course_codes, instructor_name) ==
  With(InstructorBlocks(data, course_codes, 1, instructor_name,
                        [rows |-> <<>>, tfte |-> 0, gen |-> 0]), LAMBDA acc :
    [rows |-> Append(acc.rows, SheetTotalRow(acc.tfte, acc.gen)),
     orig |-> acc.tfte, gen |-> acc.gen])

\* the instructor's frame: filter, deduplicate, add 'Enrollment Per' and
\* 'Generated FTE' (options4.py:136-171)
InstructorFrame(data, tier, selected_faculty) ==
  With(remove_duplicate_sections(Filter(data, LAMBDA r : r.fac = selected_faculty)),
       LAMBDA frame :
  With(calculate_enrollment_percentage([i \in 1..Len(frame) |-> frame[i].hc],
                                       [i \in 1..Len(frame) |-> frame[i].cap]),
       LAMBDA enr :
  With(generate_fte(frame, tier, Support), LAMBDA gen :
    [i \in 1..Len(frame) |->
       [name |-> frame[i].name, mt |-> frame[i].mt, cap |-> frame[i].cap,
        hc |-> frame[i].hc, tfte |-> frame[i].tfte, div |-> frame[i].div,
        enr |-> enr[i], gen |-> gen[i]]])))

\* fte_per_faculty(data) once selected_faculty is known.  failed: an
\* exception left the function (main.py catches none but FileNotFoundError
\* and ValueError)
fte_per_faculty(data, tier, selected_faculty) ==
  With(InstructorFrame(data, tier, selected_faculty), LAMBDA frame :
    IF get_course_codes(get_column_uniques(frame)).raised
    THEN [failed |-> TRUE, rows |-> <<>>, orig |-> 0, gen |-> 0]
    ELSE With(create_instructor_excel(frame, InstructorCourseCodes(frame),
                                      selected_faculty), LAMBDA sheet :
           [failed |-> FALSE, rows |-> sheet.rows, orig |-> sheet.orig,
            gen |-> sheet.gen]))

(***************************************************************************)
(* FTE per Instructor, web: web_functions.generate_faculty_fte_report, the *)
(* "FTE per Instructor" page of app.py and app.save_faculty_excel          *)
(***************************************************************************)
\* generate_faculty_fte_report(dean_df, fte_tier, faculty_name): the section
\* rows followed by the 'TOTAL' summary row, and the two totals
generate_faculty_fte_report(data, tier, faculty_name) ==
  With(InstructorFrame(data, tier, faculty_name), LAMBDA frame :
  With([i \in 1..Len(frame) |->
          [instructor |-> faculty_name,
           course |-> ExtractCodeVariant(frame[i].name),
           name |-> frame[i].name, mt |-> frame[i].mt,
           cap |-> frame[i].cap, hc |-> frame[i].hc,
           tfte |-> frame[i].tfte, div |-> frame[i].div,
           enr |-> frame[i].enr, gen |-> frame[i].gen]], LAMBDA rows :
  With(SumSkipNa(Column(rows, LAMBDA r : r.tfte)), LAMBDA total_original :
  With(SumSkipNa(Column(rows, LAMBDA r : r.gen)), LAMBDA total_generated :
    [rows |-> Append(rows,
                     [instructor |-> Empty, course |-> LblTOTAL, name |-> Empty,
                      mt |-> Blank, cap |-> Blank, hc |-> Blank,
                      tfte |-> total_original, div |-> Empty, enr |-> Empty,
                      gen |-> total_generated]),
     orig |-> total_original, gen |-> total_generated]))))

\* DataFrame.fillna(""): a missing cell becomes ''
FillText(x) == IF x = NaNStr THEN Empty ELSE x

FillNum(x) == IF IsNaN(x) THEN Blank ELSE x

FillNa(rows) ==
  [i \in 1..Len(rows) |->
     [instructor |-> FillText(rows[i].instructor), course |-> FillText(rows[i].course),
      name |-> FillText(rows[i].name), mt |-> FillNum(rows[i].mt),
      cap |-> FillNum(rows[i].cap), hc |-> FillNum(rows[i].hc),
      tfte |-> FillNum(rows[i].tfte), div |-> FillText(rows[i].div),
      enr |-> rows[i].enr, gen |-> FillNum(rows[i].gen)]]

\* Series.sum() of a column that fillna("") turned into objects: adding a
\* number and '' raises TypeError; a column of '' only sums to ''
ObjSumFails(cells) ==
  /\ \E i \in 1..Len(cells) : cells[i] = Blank
  /\ \E i \in 1..Len(cells) : cells[i] # Blank

RECURSIVE ObjSum(_)
ObjSum(cells) ==
  IF cells = <<>> THEN 0
  ELSE IF \A i \in 1..Len(cells) : cells[i] = Blank THEN Blank
  ELSE Head(cells) + ObjSum(Tail(cells))

\* pd.to_numeric(col, errors='coerce').fillna(0)
CoerceZero(x) == IF x = Blank \/ IsNaN(x) THEN 0 ELSE x

PageRow(instructor, course, name, r, tfte, gen) ==
  [instructor |-> instructor, course |-> course, name |-> name,
   mt |-> r.mt, cap |-> CoerceZero(r.cap), hc |-> CoerceZero(r.hc),
   tfte |-> CoerceZero(tfte), div |-> r.div, gen |-> CoerceZero(gen)]

BlankCells == [mt |-> Blank, cap |-> Blank, hc |-> Blank, div |-> Empty]

\* the display rows of one course group: sections, then 'SUBTOTAL'
PageGroup(rows, course, instructor, isFirst) ==
  With(Filter(rows, LAMBDA r : r.course = course), LAMBDA group :
    [k \in 1..Len(group) |->
       PageRow(IF isFirst /\ k = 1 THEN instructor ELSE Empty,
               IF k = 1 THEN course ELSE Empty,
               group[k].name, group[k], group[k].tfte, group[k].gen)]
    \o << PageRow(Empty, Empty, LblSubtotal, BlankCells,
                  ObjSum(Column(group, LAMBDA r : r.tfte)),
                  ObjSum(Column(group, LAMBDA r : r.gen))) >>)

RECURSIVE PageGroups(_, _, _, _)
PageGroups(rows, keys, k, instructor) ==
  IF k > Len(keys) THEN <<>>
  ELSE PageGroup(rows, keys[k], instructor, k = 1)
       \o PageGroups(rows, keys, k + 1, instructor)

\* app.py:603-670: the page aggregates the report again.  failed: line 610
\* raises TypeError and the page shows no report
InstructorPage(report_rows, instructor) ==
  With(Filter(FillNa(report_rows), LAMBDA r : StrUpper(r.course) # LblTOTAL),
       LAMBDA report_df :
  With(Column(report_df, LAMBDA r : r.tfte), LAMBDA tftes :
  With(Column(report_df, LAMBDA r : r.gen), LAMBDA gens :
    IF ObjSumFails(tftes) \/ ObjSumFails(gens)
    THEN [failed |-> TRUE, rows |-> <<>>, orig |-> 0, gen |-> 0]
    ELSE
  With(ObjSum(tftes), LAMBDA total_original :
  With(ObjSum(gens), LAMBDA total_generated :
    [failed |-> FALSE,
     rows |-> PageGroups(report_df,
                         SortedUnique(ColumnValues(report_df, LAMBDA r : r.course)),
                         1, instructor)
              \o << PageRow(Empty, Empty, LblTOTAL, BlankCells,
                            total_original, total_generated) >>,
     orig |-> CoerceZero(total_original), gen |-> CoerceZero(total_generated)])))))

\* the worksheet rows of one course group in save_faculty_excel
ExcelGroup(data, course, instructor, isFirst) ==
  With(Filter(data, LAMBDA r : r.course = course), LAMBDA group :
    [k \in 1..Len(group) |->
       [instructor |-> IF isFirst /\ k = 1 THEN instructor ELSE Empty,
        course |-> course, name |-> group[k].name, mt |-> group[k].mt,
        cap |-> group[k].cap, hc |-> group[k].hc,
        tfte |-> IF IsNaN(group[k].tfte) THEN Blank ELSE group[k].tfte,
        div |-> group[k].div,
        gen |-> IF IsNaN(group[k].gen) THEN Blank ELSE group[k].gen]]
    \o << SheetTotalRow(SumSkipNa(Column(group, LAMBDA r : r.tfte)),
                        SumSkipNa(Column(group, LAMBDA r : r.gen))) >>)

RECURSIVE ExcelGroups(_, _, _, _)
ExcelGroups(data, keys, k, instructor) ==
  IF k > Len(keys) THEN <<>>
  ELSE ExcelGroup(data, keys[k], instructor, k = 1)
       \o ExcelGroups(data, keys, k + 1, instructor)

\* pd.to_numeric(data[col], errors='coerce') on the four numeric columns
ToNumeric(x) == IF x = Blank THEN NaN ELSE x

\* save_faculty_excel(data, instructor_name): worksheet rows, the grand
\* 'Total' row (label in column A) last, and the grand totals
save_faculty_excel(data, instructor_name) ==
  With([i \in 1..Len(data) |->
          [data[i] EXCEPT !.cap = ToNumeric(@), !.hc = ToNumeric(@),
                          !.tfte = ToNumeric(@), !.gen = ToNumeric(@)]], LAMBDA numeric :
  \* groupby("Course Code") leaves out the rows without a course code
  With(Filter(numeric, LAMBDA r : r.course # LblTOTAL /\ r.course # NaNStr), LAMBDA kept :
  With(SumSkipNa(Column(kept, LAMBDA r : r.tfte)), LAMBDA tfte :
  With(SumSkipNa(Column(kept, LAMBDA r : r.gen)), LAMBDA gen :
    [rows |-> ExcelGroups(kept, SortedUnique(ColumnValues(kept, LAMBDA r : r.course)),
                          1, instructor_name)
              \o << [SheetTotalRow(tfte, gen) EXCEPT !.instructor = LblTotal,
                                                    !.course = Empty] >>,
     orig |-> tfte, gen |-> gen]))))

(***************************************************************************)
(* FTE per Course: web_functions.calculate_fte_by_course and               *)
(* functions.fte_per_course                                                *)
(***************************************************************************)
CourseRow(course, r, total_fte, generated_fte) ==
  [course |-> course, name |-> r.name, fac |-> r.fac, mt |-> r.mt,
   cap |-> r.cap, hc |-> r.hc, tfte |-> total_fte, enr |-> EnrollmentPer(r),
   gen |-> generated_fte]

BlankSection == [name |-> Empty, fac |-> Empty, mt |-> Blank, cap |-> Blank, hc |-> Blank]

\* the section rows of a course loop that looks the multiplier up under the
\* course code of the row
CourseRowsKeyedByCode(rows, tier, base_fte, course) ==
  [k \in 1..Len(rows) |->
     CourseRow(IF k = 1 THEN course ELSE Empty, rows[k], OrZero(rows[k].tfte),
               OrZero(rows[k].tfte) * (fte_lookup(tier, rows[k].code) + base_fte))]

\* the section rows of the course loop; the first row of fte_per_course
\* carries the course code, the rows of calculate_fte_by_course have no such
\* column (course = Empty)
CourseRows(rows, tier, base_fte, course) ==
  [k \in 1..Len(rows) |->
     CourseRow(IF k = 1 THEN course ELSE Empty, rows[k], OrZero(rows[k].tfte),
               OrZero(rows[k].tfte) * (fte_lookup(tier, Prefix3(rows[k].name)) + base_fte))]

\* the enrollment cell of calculate_fte_by_course: f"{enrollment_per}%", ''
\* also when the rounded percentage is 0 ("if enrollment_per")
WebCourseEnr(rows) ==
  [k \in 1..Len(rows) |->
     [rows[k] EXCEPT !.enr = IF @ \in {Blank, 0} THEN Empty ELSE PctRepr(@)]]

\* the enrollment cell of fte_per_course: "{:.2f}%".format(enrollment_per)
ConsoleCourseEnr(rows) ==
  [k \in 1..Len(rows) |->
     [rows[k] EXCEPT !.enr = IF @ = Blank THEN Empty ELSE PctText2(@)]]

CourseShown(rows) ==
  [k \in 1..Len(rows) |-> [rows[k] EXCEPT !.gen = Money2(@)]]

\* calculate_fte_by_course(df, fte_tier, course_code, base_fte)
calculate_fte_by_course(df, tier, course_code, base_fte) ==
  With(DropDuplicates(Filter(df, LAMBDA r : r.code = StrUpper(course_code))),
       LAMBDA filtered :
    IF filtered = <<>>
    THEN [nodata |-> TRUE, rows |-> <<>>, shown |-> <<>>, orig |-> 0, gen |-> 0]
    ELSE
  With(WebCourseEnr(CourseRows(filtered, tier, base_fte, Empty)), LAMBDA sections :
  With(SumPlain(Column(sections, LAMBDA r : r.tfte)), LAMBDA orig :
  With(SumPlain(Column(sections, LAMBDA r : r.gen)), LAMBDA gen :
  With(Append(sections, [CourseRow(Empty, BlankSection, orig, gen)
                           EXCEPT !.name = LblCourseTotal, !.enr = Empty]), LAMBDA rows :
    [nodata |-> FALSE, rows |-> rows, shown |-> CourseShown(rows),
     orig |-> orig, gen |-> gen])))))

\* "course_input in c"
Contains(s, pat) ==
  \E i \in 1..(Len(s) - Len(pat) + 1) : SubSeq(s, i, i + Len(pat) - 1) = pat

\* lines 827-834 of fte_per_course
ConsoleCourseShown(rows) ==
  [k \in 1..Len(rows) |-> [rows[k] EXCEPT !.gen = Money2(@), !.tfte = Fixed2(@)]]

\* one turn of the loop of fte_per_course(file_in): typed is the course code
\* entered, choice the number entered when several courses match (0: not a
\* listed number).  again: the loop asks for a course code again.
fte_per_course(data, tier, typed, choice) ==
  With(WithLooseCode(data), LAMBDA coded :
  With(Filter(SortedUnique(ColumnValues(coded, LAMBDA r : r.code)),
              LAMBDA c : Contains(c, StrUpper(typed))), LAMBDA matching :
    IF matching = <<>> \/ (Len(matching) > 1 /\ choice \notin 1..Len(matching))
    THEN [again |-> TRUE, selected |-> Empty, rows |-> <<>>, shown |-> <<>>,
          orig |-> 0, gen |-> 0]
    ELSE
  With(IF Len(matching) = 1 THEN matching[1] ELSE matching[choice], LAMBDA selected :
  With(ConsoleCourseEnr(
         CourseRows(StableSort(DropDuplicates(Filter(coded, LAMBDA r : r.code = selected)),
                               NameOrder),
                    tier, Support, selected)), LAMBDA sections :
  With(SumPlain(Column(sections, LAMBDA r : r.tfte)), LAMBDA orig :
  With(SumPlain(Column(sections, LAMBDA r : r.gen)), LAMBDA gen :
  With(Append(sections, [CourseRow(LblCourseTotal, BlankSection, orig, gen)
                           EXCEPT !.enr = Empty]), LAMBDA rows :
    [again |-> FALSE, selected |-> selected, rows |-> rows,
     shown |-> ConsoleCourseShown(rows), orig |-> orig, gen |-> gen])))))))

(***************************************************************************)
(* Course Enrollment Percentage: web_functions.calc_enrollment,            *)
(* functions.option2_enrollment and the page of app.py                     *)
(***************************************************************************)
BackWord == <<"b","a","c","k">>

\* calc_enrollment without "if cap == 0": the division raises
\* ZeroDivisionError and the except clause answers "N/A%"
calc_enrollmentNoZeroCheck(row) ==
  IF IsNaN(row.cap) \/ IsNaN(row.hc) THEN StrNan \o << "%" >>
  ELSE IF row.cap = 0 THEN << "N", "/", "A", "%" >>
  ELSE PctText2(RoundHalfEven(row.hc * 10000, row.cap))

\* calc_enrollment(row): float() accepts a missing cell (nan), so only a
\* zero capacity is answered before the division; nan formats as "nan"
calc_enrollment(row) ==
  IF row.cap = 0 THEN << "0", "%" >>
  ELSE IF IsNaN(row.cap) \/ IsNaN(row.hc) THEN StrNan \o << "%" >>
  ELSE PctText2(RoundHalfEven(row.hc * 10000, row.cap))

\* a row of the enrollment report (output_columns)
EnrollmentRow(r, text) ==
  [name |-> r.name, mt |-> r.mt, cap |-> r.cap, hc |-> r.hc, tfte |-> r.tfte,
   fac |-> r.fac, enr |-> text]

\* one turn of the loop of option2_enrollment(df): typed is the course code
\* entered.  again: no section matched and the loop asks again
option2_enrollment(df, typed) ==
  IF StrLower(typed) = BackWord
  THEN [back |-> TRUE, again |-> FALSE, rows |-> <<>>]
  ELSE
  With(Filter(df, LAMBDA r : ContainsNoCase(r.name, typed)), LAMBDA filtered_df :
    IF filtered_df = <<>>
    THEN [back |-> FALSE, again |-> TRUE, rows |-> <<>>]
    ELSE With(DropDuplicates(filtered_df), LAMBDA kept :
           [back |-> FALSE, again |-> FALSE,
            rows |-> [k \in 1..Len(kept) |->
                        EnrollmentRow(kept[k], calc_enrollment(kept[k]))]]))

\* sort_values(by='Enrollment Percentage', ascending=False) on the numbers
\* the page's calc_enrollment returns: headcount / capacity * 100, 0 for a
\* zero capacity, nan (last) for a missing cell
PctMissing(r) == r.cap # 0 /\ (IsNaN(r.cap) \/ IsNaN(r.hc))

PctDescending(a, b) ==
  /\ ~PctMissing(a)
  /\ \/ PctMissing(b)
     \/ /\ b.cap = 0 /\ a.cap # 0 /\ a.hc > 0
     \/ /\ b.cap # 0 /\ a.cap # 0 /\ a.hc * b.cap > b.hc * a.cap

\* the display text of the page: "{x:.2f}%" if isinstance(x, (float, int))
\* else "N/A"; Series.apply hands the lambda Python numbers, so every cell
\* the page's calc_enrollment computed is formatted
PageEnrollmentText(r) ==
  IF r.cap = 0 THEN PctText2(0)
  ELSE IF PctMissing(r) THEN StrNan \o << "%" >>
  ELSE PctText2(RoundHalfEven(r.hc * 10000, r.cap))

\* app.py "Course Enrollment Percentage" with a course of the select box
enrollment_page(df, course) ==
  With(DropDuplicates(Filter(df, LAMBDA r : r.code = course)), LAMBDA filtered :
  With(StableSort(filtered, PctDescending), LAMBDA display_df :
    [filtered |-> filtered,
     rows |-> [k \in 1..Len(display_df) |->
                 EnrollmentRow(display_df[k], PageEnrollmentText(display_df[k]))]]))

(***************************************************************************)
(* The chart data of the pages "FTE by Division" and "FTE per Course" of   *)
(* app.py: the currency strings are parsed back to numbers                 *)
(***************************************************************************)
\* Series.str.replace(c, ''): every occurrence of the character is removed
StrRemove(s, c) == SelectSeq(s, LAMBDA x : x # c)

DigitValue(c) == Ord[c] - Ord["0"]

\* the number a run of digits reads as
RECURSIVE NatValue(_)
NatValue(s) ==
  IF s = <<>> THEN 0
  ELSE NatValue(SubSeq(s, 1, Len(s) - 1)) * 10 + DigitValue(s[Len(s)])

\* float(s) of "nan" or of digits with at most 3 decimals, in thousandths
ToFloat(s) ==
  IF s = StrNan THEN NaN
  ELSE LET dots == {i \in 1..Len(s) : s[i] = "."}
           dot  == IF dots = {} THEN Len(s) + 1 ELSE SetMin(dots)
           frac == SubSeq(s, dot + 1, Len(s))
       IN  NatValue(SubSeq(s, 1, dot - 1)) * 1000
           + NatValue(frac \o [k \in 1..(3 - Len(frac)) |-> "0"])

\* a parse that keeps the digits before the first thousands separator only
ParseMoneyStopsAtComma(text) ==
  LET commas == {i \in 1..Len(text) : text[i] = ","}
  IN  IF commas = {} THEN ToFloat(StrRemove(text, "$"))
      ELSE NatValue(SubSeq(text, 2, SetMin(commas) - 1)) * 1000

\* .str.replace('$', '').str.replace(',', '').astype(float)
ParseMoney(text) == ToFloat(StrRemove(StrRemove(text, "$"), ","))

\* sort_values(by='Generated FTE Float', ascending=False): NaN last
FloatDescending(a, b) ==
  /\ ~IsNaN(a.gen_float)
  /\ IsNaN(b.gen_float) \/ a.gen_float > b.gen_float

\* plot_df: the rows kept, without the columns dropped, with the column
\* 'Generated FTE Float', by descending Generated FTE
PlotFrame(rows, dropped) ==
  StableSort([k \in 1..Len(rows) |->
                [f \in (DOMAIN rows[k] \ dropped) \cup {"gen_float"} |->
                   IF f = "gen_float" THEN ParseMoney(rows[k].gen) ELSE rows[k][f]]],
             FloatDescending)

\* plot_df of the page "FTE by Division" (app.py:550-554)
DivisionPlot(report_df) ==
  PlotFrame(SelectSeq(report_df,
                      LAMBDA r : r.course \notin {LblTotal, LblDivisionTotal}),
            {"division", "course"})

\* plot_df of the page "FTE per Course" (app.py:727-736)
CoursePlot(df_result) ==
  PlotFrame(SelectSeq(df_result, LAMBDA r : r.name # LblCourseTotal), {})

(***************************************************************************)
(* The prompt of options4.fte_per_faculty                                  *)
(***************************************************************************)
ListWord == <<"l","i","s","t">>

\* str.strip(): the blanks at both ends are removed
RECURSIVE Strip(_)
Strip(s) ==
  IF s = <<>> THEN s
  ELSE IF Head(s) = " " THEN Strip(Tail(s))
  ELSE IF s[Len(s)] = " " THEN Strip(SubSeq(s, 1, Len(s) - 1))
  ELSE s

\* clean_name_for_search(name): name.replace(".", "").strip().lower()
clean_name_for_search(name) == StrLower(Strip(StrRemove(name, ".")))

\* str.isdigit()
IsDigit(s) == s # <<>> /\ \A i \in 1..Len(s) : s[i] \in Digit

\* "not choice.isdigit() or int(choice) not in range(1, len(matches))"
ChoiceRejected(choice, n) ==
  ~IsDigit(choice) \/ NatValue(choice) \notin 1..(n - 1)

\* one turn of the loop of fte_per_faculty(data): typed is the name entered,
\* choice what is entered when several instructors match.  asked: the
\* numbered list was shown and a number asked for.  outcome: "back",
\* "again" (the loop prompts again), "selected", or "IndexError" (matches[0]
\* of an empty list)
fte_faculty_prompt(data, typed, choice) ==
  With(SortedUnique(ColumnValues(data, LAMBDA r : r.fac)), LAMBDA faculty :
  With(Strip(typed), LAMBDA faculty_name :
    IF StrLower(faculty_name) = BackWord
    THEN [outcome |-> "back", asked |-> FALSE, matches |-> <<>>, selected |-> NoneStr]
    ELSE IF StrLower(faculty_name) = ListWord \/ faculty_name = Empty
    THEN [outcome |-> "again", asked |-> FALSE, matches |-> <<>>, selected |-> NoneStr]
    ELSE
  With(Filter(faculty, LAMBDA f : Contains(clean_name_for_search(f),
                                           clean_name_for_search(faculty_name))),
       LAMBDA matches :
    IF Len(matches) > 1
    THEN IF ChoiceRejected(choice, Len(matches))
         THEN [outcome |-> "again", asked |-> TRUE, matches |-> matches,
               selected |-> NoneStr]
         ELSE [outcome |-> "selected", asked |-> TRUE, matches |-> matches,
               selected |-> matches[NatValue(choice)]]
    ELSE IF matches = <<>>
    THEN [outcome |-> "IndexError", asked |-> FALSE, matches |-> matches,
          selected |-> NoneStr]
    ELSE [outcome |-> "selected", asked |-> FALSE, matches |-> matches,
          selected |-> matches[1]])))

(***************************************************************************)
(* The data the model runs on                                              *)
(***************************************************************************)
\* section identifiers
ENG_111_01 == <<"E","N","G","-","1","1","1","-","0","1">>

ENG_111A_01 == <<"E","N","G","-","1","1","1","A","-","0","1">>

ENG_112_01 == <<"E","N","G","-","1","1","2","-","0","1">>

HUM_110_01 == <<"H","U","M","-","1","1","0","-","0","1">>

MAT_171_01 == <<"M","A","T","-","1","7","1","-","0","1">>

ENG111 == <<"E","N","G","1","1","1">>

ENG_111_02 == <<"E","N","G","-","1","1","1","-","0","2">>

\* divisions, instructors, tier prefixes
DivENG == <<"E","N","G">>

DivMth == <<"M","t","h">>

FacLee == <<"A"," ","L","e","e">>

FacRay == <<"B"," ","R","a","y">>

PrefENG == <<"E","N","G">>

PrefMAT == <<"M","A","T">>

Row(n, m, c, h, d, f) ==
  [name |-> n, mt |-> m, cap |-> c, hc |-> h, div |-> d, fac |-> f]

\* The rows an upload is drawn from: one section in three meeting blocks (and
\* a second row for one of the blocks, with another capacity), a
\* course-code variant (ENG-111A), a course without reference hours
\* (ENG-112), an identifier without course code (ENG111), a second division,
\* a second instructor, missing numbers.
RowPool ==
  { Row(ENG_111_01,  1,   40,  20,  DivENG, FacLee),
    Row(ENG_111_01,  1,   30,  20,  DivENG, FacLee),
    Row(ENG_111_01,  2,   40,  8,   DivENG, FacLee),
    Row(ENG_111_01,  NaN, 0,   4,   DivENG, FacLee),
    Row(ENG_111A_01, 1,   40,  20,  DivENG, FacLee),
    Row(ENG_112_01,  1,   40,  20,  DivENG, FacLee),
    Row(ENG111,      1,   40,  20,  DivMth, FacRay),
    Row(MAT_171_01,  2,   NaN, 16,  DivENG, FacRay) }

\* the contact-hours reference table (Sec Name, Contact Hours)
RefTable ==
  << [name |-> ENG_111_01, ch |-> 3],
     [name |-> HUM_110_01, ch |-> 4],
     [name |-> MAT_171_01, ch |-> 4] >>

\* FTE_Tier.xlsx (Prefix/Course ID, New Sector); one row has no prefix, one
\* has a course code for identifier
TierTable ==
  << [prefix |-> PrefENG, sector |-> 100],
     [prefix |-> NaNStr,  sector |-> 50],
     [prefix |-> PrefMAT, sector |-> 250],
     [prefix |-> <<"E","N","G","-","1","1","1">>, sector |-> 300] >>

\* bounds of the exploration
MaxRows == 3

MaxContact == 4

MaxHead == 24

SeqsUpTo(S, n) == UNION { [1..k -> S] : k \in 1..n }

NoReport == [kind |-> "none"]

\* an upload of up to MaxRows rows of the pool, with the shipped tables
InitRows ==
  /\ file_in \in SeqsUpTo(RowPool, MaxRows)
  /\ fte_file_in = RefTable
  /\ fte_tier = TierTable

\* a reference table kept by section: two sections of ENG-111, with their
\* own contact hours, and a row without section identifier
RefBySection ==
  << [name |-> ENG_111_01, ch |-> 3],
     [name |-> ENG_111_02, ch |-> 4],
     [name |-> NaNStr,     ch |-> 2] >>

\* identifiers that are no section names: two letters, a number
ShortName == <<"E","N">>

NumberName == <<"1","2","3">>

\* rows of an upload with a blank, a short and a numeric 'Sec Name'
OddRows ==
  { Row(NaNStr,     1, 40, 20, DivENG, FacLee),
    Row(ShortName,  1, 40, 20, DivENG, FacLee),
    Row(NumberName, 1, 40, 20, DivENG, FacLee) }

MaxJoinRows == 2

\* a short upload, the second section of ENG-111 and odd rows included, read
\* against the reference table kept by section
InitJoin ==
  /\ file_in \in SeqsUpTo({r \in RowPool : r.mt = 1 /\ r.cap = 40}
                            \cup {Row(ENG_111_02, 1, 40, 20, DivENG, FacLee)}
                            \cup OddRows,
                          MaxJoinRows)
  /\ fte_file_in = RefBySection
  /\ fte_tier = TierTable

\* a one-section upload over the whole range of contact hours and head counts
InitCalc ==
  /\ \E n \in {ENG_111_01, HUM_110_01}, h \in 0..MaxHead \cup {NaN} :
        file_in = << Row(n, 1, 40, h, DivENG, FacLee) >>
  /\ \E c \in 0..MaxContact \cup {NaN} :
        fte_file_in = << [name |-> ENG_111_01, ch |-> c],
                         [name |-> HUM_110_01, ch |-> c] >>
  /\ fte_tier = TierTable

\* the console program started in a directory where one input file is not
\* found
InitMissing ==
  /\ program = "console"
  /\ missing \in {{"deanDailyCsar.csv"}, {"unique_deansDailyCsar_FTE.xlsx"},
                  {"FTE_Tier.xlsx"}}
  /\ file_in \in {<< Row(ENG_111_01, 1, 40, 20, DivENG, FacLee) >>,
                  << Row(ENG_111_01, 1, 40, 20, DivENG, FacLee),
                     Row(MAT_171_01, 2, NaN, 16, DivENG, FacRay) >>}
  /\ fte_file_in = RefTable
  /\ fte_tier = TierTable

Init ==
  /\ \/ /\ program \in {"console", "web"}
        /\ InitRows \/ InitCalc \/ InitJoin
        /\ missing = {}
     \/ InitMissing
  /\ dean_df = <<>>
  /\ loaded = FALSE
  /\ report = NoReport

\* functions.readfile() found no file to read: "except FileNotFoundError"
\* made it return the list [] in place of a frame
NoFrame ==
  missing \cap {"deanDailyCsar.csv", "unique_deansDailyCsar_FTE.xlsx"} # {}

\* main.py:32 / app.py:237-272: the dataset is read once, before any report
ReadFile ==
  /\ ~loaded
  /\ dean_df' = IF NoFrame THEN <<>> ELSE readfile(file_in, fte_file_in)
  /\ loaded' = TRUE
  /\ UNCHANGED <<program, file_in, fte_file_in, fte_tier, report, missing>>

\* the console process is over: an exception left main() (a traceback), or
\* main() caught it outside its menu loop and returned, or option 6 was
\* chosen
ProcessEnd(option, cause) ==
  [kind |-> "process_end", option |-> option, cause |-> cause]

\* what is typed or selected as a division, an instructor, a course
DivInputs == {DivENG, DivMth, <<"e","n","g">>, <<"B","U","S">>}

FacInputs == {FacLee, FacRay}

CourseInputs == {<<"E","N","G","-","1","1","1">>, <<"e","n","g">>,
                 <<"H","U","M","-","1","1","0">>, <<"B","U","S">>}

\* the base values a caller passes: the default and an override
AltSupport == 2000

SupportInputs == {Support, AltSupport}

NoChange ==
  UNCHANGED <<program, file_in, fte_file_in, fte_tier, dean_df, loaded, missing>>

\* app.py "FTE by Division": fte_by_div_raw, then format_fte_output and the
\* chart data
DivisionReportWeb(div) ==
  /\ loaded /\ program = "web" /\ report = NoReport
  /\ With(fte_by_div_raw(dean_df, fte_tier, div), LAMBDA raw :
       report' = [kind |-> "division_web", arg |-> div, nodata |-> raw.nodata,
                  rows |-> raw.rows,
                  shown |-> IF raw.nodata THEN <<>>
                            ELSE format_fte_output(raw.rows, raw.orig, raw.gen),
                  plot |-> IF raw.nodata THEN <<>>
                           ELSE DivisionPlot(format_fte_output(raw.rows, raw.orig,
                                                               raw.gen)),
                  orig |-> raw.orig, gen |-> raw.gen])
  /\ NoChange

\* main.py option 3: division_fte.  On the list [] file_in["Sec Divisions"]
\* raises TypeError (functions.py:374), which main() does not catch; with a
\* valid division typed, pd.read_excel("FTE_Tier.xlsx") (functions.py:400)
\* raises FileNotFoundError, which main() catches outside its loop
DivisionReportConsole(div) ==
  /\ loaded /\ program = "console" /\ report = NoReport
  /\ IF NoFrame THEN report' = ProcessEnd("3", "TypeError")
     ELSE IF /\ "FTE_Tier.xlsx" \in missing
             /\ div # Empty
             /\ \E k \in 1..Len(dean_df) :
                   dean_df[k].div # NaNStr /\ StrUpper(dean_df[k].div) = StrUpper(div)
     THEN report' = ProcessEnd("3", "FileNotFoundError")
     ELSE With(division_fte(dean_df, fte_tier, div), LAMBDA res :
            report' = [kind |-> "division_console", arg |-> div,
                       nodata |-> res.nodata, rows |-> res.rows,
                       shown |-> res.shown, orig |-> res.orig, gen |-> res.gen])
  /\ NoChange

\* an instructor name that no row of the pool carries
FacNone == <<"C"," ","D","o","e">>

\* what is typed at the prompts of fte_per_faculty: a name, a part of the
\* names, a name of nobody, the commands, nothing; and a number or nothing
FacTyped == FacInputs \cup {<<"a">>, FacNone, BackWord, ListWord, Empty}

ChoiceInputs == {<<"0">>, <<"1">>, <<"2">>, <<"3">>, Empty}

\* main.py option 4: one turn of the prompt of fte_per_faculty and, with an
\* instructor selected, the report.  On the list [] data["Sec Faculty Info"]
\* raises TypeError (options4.py:74); matches[0] of an empty list raises
\* IndexError (options4.py:123); pd.read_excel("FTE_Tier.xlsx")
\* (options4.py:133) raises FileNotFoundError.  main() catches only the last
\* one, outside its loop
InstructorReportConsole(typed, choice) ==
  /\ loaded /\ program = "console" /\ report = NoReport
  /\ IF NoFrame THEN report' = ProcessEnd("4", "TypeError")
     ELSE With(fte_faculty_prompt(dean_df, typed, choice), LAMBDA prompt :
       IF prompt.outcome = "IndexError"
       THEN report' = ProcessEnd("4", "IndexError")
       ELSE IF prompt.outcome # "selected"
       THEN report' = [kind |-> "instructor_prompt", typed |-> typed,
                       asked |-> prompt.asked, matches |-> prompt.matches,
                       choice |-> IF prompt.asked THEN choice ELSE NoneStr,
                       back |-> prompt.outcome = "back"]
       ELSE IF "FTE_Tier.xlsx" \in missing
       THEN report' = ProcessEnd("4", "FileNotFoundError")
       ELSE With(fte_per_faculty(dean_df, fte_tier, prompt.selected), LAMBDA res :
              report' = [kind |-> "instructor_console", arg |-> prompt.selected,
                         asked |-> prompt.asked, matches |-> prompt.matches,
                         choice |-> IF prompt.asked THEN choice ELSE NoneStr,
                         failed |-> res.failed,
                         rows |-> res.rows, orig |-> res.orig, gen |-> res.gen]))
  /\ NoChange

\* app.py "FTE per Instructor": generate_faculty_fte_report, the page's own
\* aggregation, save_faculty_excel
InstructorReportWeb(fac) ==
  /\ loaded /\ program = "web" /\ report = NoReport
  /\ fac \in ColumnValues(dean_df, LAMBDA r : r.fac)
  /\ With(generate_faculty_fte_report(dean_df, fte_tier, fac), LAMBDA first :
     With(InstructorPage(first.rows, fac), LAMBDA page :
     With(save_faculty_excel(
            Filter(FillNa(first.rows), LAMBDA r : StrUpper(r.course) # LblTOTAL), fac),
          LAMBDA excel :
       report' = [kind |-> "instructor_web", arg |-> fac,
                  first |-> first, failed |-> page.failed,
                  rows |-> page.rows, orig |-> page.orig, gen |-> page.gen,
                  sheet |-> IF page.failed THEN <<>> ELSE excel.rows,
                  sheet_orig |-> excel.orig, sheet_gen |-> excel.gen])))
  /\ NoChange

\* app.py "FTE per Course": calculate_fte_by_course and the chart data
CourseReportWeb(course, base_fte) ==
  /\ loaded /\ program = "web" /\ report = NoReport
  /\ With(calculate_fte_by_course(dean_df, fte_tier, course, base_fte), LAMBDA res :
       report' = [kind |-> "course_web", arg |-> course, base |-> base_fte,
                  nodata |-> res.nodata, rows |-> res.rows, shown |-> res.shown,
                  plot |-> CoursePlot(res.shown),
                  orig |-> res.orig, gen |-> res.gen])
  /\ NoChange

\* main.py option 5: one turn of fte_per_course, which first overwrites the
\* 'Course Code' column of the loaded dataset.  On the list []
\* file_in["Sec Name"] raises TypeError (functions.py:693), which main() does
\* not catch; pd.read_excel("FTE_Tier.xlsx") (functions.py:745) is inside
\* the try of the loop: "except Exception" prints and the loop asks again
CourseReportConsole(typed, choice) ==
  /\ loaded /\ program = "console" /\ report = NoReport
  /\ IF NoFrame THEN report' = ProcessEnd("5", "TypeError")
     ELSE With(fte_per_course(dean_df, fte_tier, typed, choice), LAMBDA res :
            report' = IF "FTE_Tier.xlsx" \in missing
                      THEN [kind |-> "course_console", arg |-> typed,
                            again |-> TRUE, selected |-> Empty,
                            rows |-> <<>>, shown |-> <<>>, orig |-> 0, gen |-> 0]
                      ELSE [kind |-> "course_console", arg |-> typed,
                            again |-> res.again, selected |-> res.selected,
                            rows |-> res.rows, shown |-> res.shown,
                            orig |-> res.orig, gen |-> res.gen])
  /\ dean_df' = IF NoFrame THEN dean_df ELSE WithLooseCode(dean_df)
  /\ UNCHANGED <<program, file_in, fte_file_in, fte_tier, loaded, missing>>

\* the course codes a select box of the pages can offer
CourseCodes ==
  {ExtractCode(n) : n \in {r.name : r \in RowPool} \cup {HUM_110_01}} \ {NaNStr}

\* what is typed at the prompt of option2_enrollment
EnrollInputs == CourseInputs \cup {BackWord}

\* main.py option 2: one turn of option2_enrollment.  On the list []
\* df["Sec Name"] raises TypeError (functions.py:273-275) unless 'back' was
\* typed
EnrollmentReportConsole(typed) ==
  /\ loaded /\ program = "console" /\ report = NoReport
  /\ IF NoFrame /\ StrLower(typed) # BackWord
     THEN report' = ProcessEnd("2", "TypeError")
     ELSE With(option2_enrollment(dean_df, typed), LAMBDA res :
            report' = [kind |-> "enrollment_console", arg |-> typed,
                       back |-> res.back, again |-> res.again, rows |-> res.rows])
  /\ NoChange

\* app.py "Course Enrollment Percentage": a course of the select box, Run
EnrollmentReportWeb(course) ==
  /\ loaded /\ program = "web" /\ report = NoReport
  /\ course \in ColumnValues(dean_df, LAMBDA r : r.code) \ {NaNStr}
  /\ With(enrollment_page(dean_df, course), LAMBDA res :
       report' = [kind |-> "enrollment_web", arg |-> course,
                  filtered |-> res.filtered, rows |-> res.rows])
  /\ NoChange

\* web_functions.generate_faculty_fte_report called with a name of the
\* caller's choice
FacultyReport(name) ==
  /\ loaded /\ program = "web" /\ report = NoReport
  /\ With(generate_faculty_fte_report(dean_df, fte_tier, name), LAMBDA res :
       report' = [kind |-> "faculty_report", arg |-> name,
                  rows |-> res.rows, orig |-> res.orig, gen |-> res.gen])
  /\ NoChange

\* options4.generate_fte called with a base value of the caller's choice
GenerateFte(support) ==
  /\ loaded /\ report = NoReport
  /\ report' = [kind |-> "generate_fte", support |-> support,
                data |-> dean_df,
                gen |-> generate_fte(dean_df, fte_tier, support)]
  /\ NoChange

\* main.py:34 (the menu loop) / app.py: the next request: the program is
\* ready for another report
ReturnToMenu ==
  /\ report # NoReport
  /\ report.kind # "process_end"
  /\ report' = NoReport
  /\ NoChange

\* main.py option 6: the menu loop ends
Exit ==
  /\ loaded /\ program = "console" /\ report = NoReport
  /\ report' = ProcessEnd("6", "exit")
  /\ NoChange

Next ==
  \/ ReadFile
  \/ ReturnToMenu
  \/ Exit
  \/ \E div \in DivInputs : DivisionReportWeb(div)
  \/ \E div \in DivInputs : DivisionReportConsole(div)
  \/ \E typed \in FacTyped, choice \in ChoiceInputs : InstructorReportConsole(typed, choice)
  \/ \E fac \in FacInputs : InstructorReportWeb(fac)
  \/ \E course \in CourseInputs, base \in SupportInputs : CourseReportWeb(course, base)
  \/ \E typed \in CourseInputs, choice \in 0..2 : CourseReportConsole(typed, choice)
  \/ \E support \in SupportInputs : GenerateFte(support)
  \/ \E name \in FacInputs \cup {FacNone} : FacultyReport(name)
  \/ \E typed \in EnrollInputs : EnrollmentReportConsole(typed)
  \/ \E course \in CourseCodes : EnrollmentReportWeb(course)

Spec == Init /\ [][Next]_vars

(***************************************************************************)
(* Properties                                                              *)
(***************************************************************************)
RECURSIVE SumSeq(_)
SumSeq(cells) == IF cells = <<>> THEN 0 ELSE Head(cells) + SumSeq(Tail(cells))

SetMax(S) == CHOOSE x \in S : \A y \in S : y <= x

\* the Generated FTE cells of rows a..b
GenCells(rows, a, b) == [i \in 1..(b - a + 1) |-> rows[a + i - 1].gen]

DivisionReported ==
  report.kind \in {"division_web", "division_console"} /\ ~report.nodata

\* the positions of the 'Total' rows and of the section rows of a division table
DivTotals(rows) == {k \in 1..Len(rows) : rows[k].course = LblTotal}

DivSections(rows) ==
  {k \in 1..Len(rows) : rows[k].course \notin {LblTotal, LblDivisionTotal}}

\* the first row of the run of rows that the 'Total' row at k closes
RunStart(rows, k) ==
  LET prev == {j \in DivTotals(rows) : j < k}
  IN  IF prev = {} THEN 1 ELSE SetMax(prev) + 1

\* C1: in the division view each 'Total' row carries the sum of the Generated
\* FTE of the section rows of its course group (the rows of the division with
\* its course code, which are the rows right before it; a row without course
\* code is a group of its own), and the grand total of Generated FTE is the
\* sum of the 'Total' rows.
C1_DivisionTotalsAreSums ==
  DivisionReported =>
    LET rows   == report.rows
        totals == DivTotals(rows)
    IN  /\ \A k \in totals :
             LET a == RunStart(rows, k)
                 c == ExtractCodeLoose(rows[a].name)
             IN  /\ a < k
                 /\ rows[k].gen = SumSeq(GenCells(rows, a, k - 1))
                 /\ IF c = NaNStr THEN k = a + 1
                    ELSE \A i \in DivSections(rows) :
                           (i \in a..(k - 1)) <=> (ExtractCodeLoose(rows[i].name) = c)
        /\ \A i \in DivSections(rows) : \E k \in totals : RunStart(rows, k) <= i /\ i < k
        /\ report.gen = SumSeq([j \in 1..Cardinality(totals) |->
                                  rows[CHOOSE k \in totals :
                                         Cardinality({m \in totals : m < k}) = j - 1].gen])
        /\ report.kind = "division_console" =>
             /\ rows[Len(rows)].course = LblDivisionTotal
             /\ rows[Len(rows)].gen = report.gen
        /\ report.kind = "division_web" =>
             report.shown[Len(report.shown)].gen = Money2(report.gen)

\* a division table with two course groups, one of them of two sections,
\* and money in it
C1_Witness ==
  /\ DivisionReported
  /\ Cardinality(DivTotals(report.rows)) >= 2
  /\ \E k \in DivTotals(report.rows) : RunStart(report.rows, k) + 2 <= k
  /\ \A k \in DivTotals(report.rows) : report.rows[k].gen > 0

\* the Generated FTE column of the instructor's deduplicated frame
InstructorGenCells(fac) ==
  Column(InstructorFrame(dean_df, fte_tier, fac), LAMBDA r : r.gen)

\* C2: in the console instructor view the grand total of Generated FTE is the
\* sum of the Generated FTE of the instructor's deduplicated section rows,
\* each section counted once.
C2_InstructorGrandTotalIsSum ==
  report.kind = "instructor_console" =>
    /\ report.gen = SumSeq(InstructorGenCells(report.arg))
    /\ report.rows[Len(report.rows)].gen = report.gen

\* the rows of the loaded dataset that a division, course or instructor
\* report is about, with the report's own selection rule
Selected ==
  IF report.kind \in {"division_web", "division_console"}
  THEN Filter(dean_df, LAMBDA r : StrUpper(r.div) = StrUpper(report.arg))
  ELSE IF report.kind = "course_web"
  THEN Filter(dean_df, LAMBDA r : r.code = StrUpper(report.arg))
  ELSE Filter(dean_df, LAMBDA r : r.fac = report.arg)

\* the section names of the selected rows, each once
SelectedNames == SortedUnique(ColumnValues(Selected, LAMBDA r : r.name))

\* the Generated FTE the report shows for the section name
ShownGen(rows, name) ==
  LET hits == {k \in 1..Len(rows) : rows[k].name = name}
  IN  rows[SetMin(hits)].gen

\* C3: in the division, course and instructor views a section name that
\* occurs in several input rows contributes once: the grand total of Generated
\* FTE is the sum over the distinct section names of the report of the
\* Generated FTE of one row of that name.
C3_SectionCountedOnce ==
  (/\ report.kind \in {"division_web", "division_console", "course_web",
                       "instructor_web"}
   /\ report.kind = "instructor_web" => ~report.failed
   /\ report.kind # "instructor_web" => ~report.nodata) =>
    report.gen = SumSeq(Column(SelectedNames, LAMBDA n : ShownGen(report.rows, n)))

\* C4: wherever the dataset is read (console readfile, web readfile and the
\* upload pipeline share the computation), a row with numeric Contact Hours
\* and FTE Count has Total FTE = Contact Hours * 16 * FTE Count / 512 rounded
\* to 3 decimals: the value, in thousandths, is the integer nearest to the
\* quotient, a tie going to the even one; 3 contact hours and 20 students
\* give 1.875.
C4_TotalFteFormula ==
  loaded =>
    \A i \in 1..Len(dean_df) :
      LET r == dean_df[i]
          q == r.ch * 16 * r.hc * 1000
      IN  (~IsNaN(r.ch) /\ ~IsNaN(r.hc)) =>
            /\ r.tfte \in Nat
            /\ 2 * (512 * r.tfte - q) <= 512
            /\ 2 * (q - 512 * r.tfte) <= 512
            /\ (2 * (512 * r.tfte - q) = 512 \/ 2 * (q - 512 * r.tfte) = 512)
                 => r.tfte % 2 = 0
            /\ (r.ch = 3 /\ r.hc = 20) => r.tfte = 1875

\* a dataset has been read with a row whose quotient lies exactly between two
\* thousandths (1 contact hour, 2 students: 0.0625)
C4_Witness ==
  /\ loaded
  /\ \E i \in 1..Len(dean_df) :
       /\ ~IsNaN(dean_df[i].ch) /\ ~IsNaN(dean_df[i].hc)
       /\ 2 * ((dean_df[i].ch * 16 * dean_df[i].hc * 1000) % 512) = 512

\* the multiplier the tier table gives a prefix: the New Sector of its last
\* row with that prefix, 0 when it has none
\* the section name has a tier prefix: it is a text of 3 characters or more
\* (the other rows are the error rows of compute_fte)
HasPrefix(name) == name # NaNStr /\ Len(name) >= 3

Multiplier(prefix) ==
  LET hits == {k \in 1..Len(fte_tier) : fte_tier[k].prefix = prefix}
  IN  IF hits = {} THEN 0 ELSE fte_tier[SetMax(hits)].sector

\* C5: Generated FTE = Total FTE * (multiplier + support) for every section
\* with a tier prefix and a numeric Total FTE: with the support the caller passes (generate_fte,
\* calculate_fte_by_course), and with 1926 where the caller passes none (the
\* instructor reports); Total FTE 1.875 with multiplier 0 gives 3611.25.
C5_GeneratedFteFormula ==
  /\ report.kind = "generate_fte" =>
       \A i \in 1..Len(report.data) :
         (HasPrefix(report.data[i].name) /\ ~IsNaN(report.data[i].tfte)) =>
           report.gen[i] = report.data[i].tfte
                           * (Multiplier(Prefix3(report.data[i].name)) + report.support)
  /\ report.kind = "course_web" =>
       \A i \in 1..Len(report.rows) :
         LET r == report.rows[i]
             src == {k \in 1..Len(dean_df) : dean_df[k].name = r.name}
         IN  (r.name # LblCourseTotal /\ ~IsNaN(dean_df[SetMin(src)].tfte)) =>
               r.gen = dean_df[SetMin(src)].tfte
                       * (Multiplier(Prefix3(r.name)) + report.base)
  /\ report.kind = "instructor_web" =>
       \A i \in 1..Len(report.first.rows) :
         LET r == report.first.rows[i]
         IN  (r.course # LblTOTAL /\ HasPrefix(r.name) /\ ~IsNaN(r.tfte)) =>
               /\ r.gen = r.tfte * (Multiplier(Prefix3(r.name)) + 1926)
               /\ (r.tfte = 1875 /\ Multiplier(Prefix3(r.name)) = 0) => r.gen = 3611250

\* generate_fte was called with another support than the default on a
\* dataset with a section that has a Total FTE
C5_Witness ==
  /\ report.kind = "generate_fte"
  /\ report.support # 1926
  /\ \E i \in 1..Len(report.data) :
       /\ report.data[i].tfte = 1875
       /\ Multiplier(Prefix3(report.data[i].name)) = 0
       /\ report.gen[i] = 1875 * report.support

\* the prefix of the section name is the prefix of no row of the tier table
NoTier(name) == \A k \in 1..Len(fte_tier) : fte_tier[k].prefix # Prefix3(name)

\* what a missing Total FTE counts as in a product
Numeric(tfte) == IF tfte \in {NaN, Blank} THEN 0 ELSE tfte

\* C6: a section whose prefix (the first 3 characters of a section name of 3
\* characters or more) is not in the tier table gets multiplier 0: the
\* report is produced and the section's Generated FTE is Total FTE * 1926
\* (generate_fte / compute_fte with the default support, both division walks).
C6_MissingTierIsZero ==
  /\ (report.kind = "generate_fte" /\ report.support = 1926) =>
       \A i \in 1..Len(report.data) :
         (HasPrefix(report.data[i].name) /\ NoTier(report.data[i].name)) =>
           report.gen[i] = Numeric(report.data[i].tfte) * 1926
  /\ report.kind = "instructor_web" =>
       \A i \in 1..Len(report.first.rows) :
         LET r == report.first.rows[i]
         IN  (r.course # LblTOTAL /\ HasPrefix(r.name) /\ NoTier(r.name)) =>
               r.gen = Numeric(r.tfte) * 1926
  /\ report.kind \in {"division_web", "division_console"} =>
       \A i \in 1..Len(report.rows) :
         LET r == report.rows[i]
             src == {k \in 1..Len(dean_df) : dean_df[k].name = r.name}
         IN  (i \in DivSections(report.rows) /\ NoTier(r.name)) =>
               \E k \in src : r.gen = Numeric(dean_df[k].tfte) * 1926

\* a division table with a section of a prefix without tier and with a
\* Total FTE
C6_Witness ==
  /\ report.kind = "division_web" /\ ~report.nodata
  /\ \E i \in DivSections(report.rows) :
       /\ NoTier(report.rows[i].name)
       /\ report.rows[i].tfte = 1875
       /\ report.rows[i].gen = 3611250

\* a report with a table was produced
TableProduced ==
  \/ report.kind \in {"division_web", "division_console", "course_web"} /\ ~report.nodata
  \/ report.kind = "course_console" /\ ~report.again
  \/ report.kind = "instructor_console"
  \/ report.kind = "instructor_web" /\ ~report.failed

\* the course group of a section: its course code; in the division walk a
\* section without course code is a group of its own
GroupKey(code, i) ==
  [code |-> code,
   at |-> IF code = NaNStr /\ report.kind \in {"division_web", "division_console"}
          THEN i ELSE 0]

\* the table of the report as it is shown, each row as section ("sec"),
\* subtotal ("sub") or grand total ("grand"), a section with its course group
Layout ==
  LET rows == IF report.kind = "division_web" THEN report.shown ELSE report.rows
  IN  [i \in 1..Len(rows) |->
        IF report.kind \in {"division_web", "division_console"}
        THEN IF rows[i].course = LblDivisionTotal THEN [tag |-> "grand"]
             ELSE IF rows[i].course = LblTotal THEN [tag |-> "sub"]
             ELSE [tag |-> "sec", key |-> GroupKey(ExtractCodeLoose(rows[i].name), i)]
        ELSE IF report.kind = "instructor_console"
        THEN IF rows[i].course = LblTotal
             THEN [tag |-> IF i = Len(rows) THEN "grand" ELSE "sub"]
             ELSE [tag |-> "sec", key |-> GroupKey(MatchCodeAtStart(rows[i].name), i)]
        ELSE IF report.kind = "instructor_web"
        THEN IF rows[i].name = LblTOTAL THEN [tag |-> "grand"]
             ELSE IF rows[i].name = LblSubtotal THEN [tag |-> "sub"]
             ELSE [tag |-> "sec", key |-> GroupKey(ExtractCodeVariant(rows[i].name), i)]
        ELSE IF LblCourseTotal \in {rows[i].name, rows[i].course} THEN [tag |-> "grand"]
             ELSE [tag |-> "sec", key |-> GroupKey(Empty, i)]]

\* the subtotal at k closes the rows after the previous subtotal
LayoutRunStart(L, k) ==
  LET prev == {j \in 1..(k - 1) : L[j].tag = "sub"}
  IN  IF prev = {} THEN 1 ELSE SetMax(prev) + 1

\* C7: in the table of every view each subtotal row comes right after the
\* last section row of its course group (the rows between the previous
\* subtotal and it are exactly the sections of that group), and the grand
\* total row is the last row.
C7_TotalsFollowTheirGroups ==
  TableProduced =>
    LET L == Layout
    IN  /\ L[Len(L)].tag = "grand"
        /\ \A i \in 1..(Len(L) - 1) : L[i].tag # "grand"
        /\ \A k \in 1..Len(L) :
             L[k].tag = "sub" =>
               /\ k > 1 /\ L[k - 1].tag = "sec"
               /\ \A i \in 1..Len(L) :
                    L[i].tag = "sec" =>
                      ((L[i].key = L[k - 1].key) <=> (LayoutRunStart(L, k) <= i /\ i < k))
        /\ (report.kind \notin {"course_web", "course_console"} /\ Len(L) > 1)
             => L[Len(L) - 1].tag = "sub"

\* the cells of a column of the section rows of the report's table, a missing
\* Total FTE counted as 0
SectionCells(Col(_)) ==
  [i \in 1..Len(report.rows) |->
     IF Layout[i].tag = "sec" THEN Numeric(Col(report.rows[i])) ELSE 0]

\* C8: a section with an undefined Total FTE is a row of the table and counts
\* as 0: in every view the report is produced, every selected section is in
\* the table, no total is undefined, and the grand totals of Total FTE and of
\* Generated FTE are the sums over the section rows with the undefined cells
\* taken as 0.
C8_UndefinedFteCountsZero ==
  /\ report.kind = "instructor_web" => ~report.failed
  /\ TableProduced =>
       /\ \A k \in 1..Len(Selected) :
            IsNaN(Selected[k].tfte) =>
              \E i \in 1..Len(report.rows) : report.rows[i].name = Selected[k].name
       /\ \A i \in 1..Len(report.rows) :
            Layout[i].tag # "sec" => ~IsNaN(report.rows[i].tfte) /\ ~IsNaN(report.rows[i].gen)
       /\ ~IsNaN(report.orig) /\ ~IsNaN(report.gen)
       /\ report.orig = SumSeq(SectionCells(LAMBDA r : r.tfte))
       /\ report.gen = SumSeq(SectionCells(LAMBDA r : r.gen))

\* the section rows of the report generate_faculty_fte_report returned
FirstSections == Filter(report.first.rows, LAMBDA r : r.course # LblTOTAL)

\* the sum of a column over the sections of a course of that report
CourseSum(course, Col(_)) ==
  SumSeq(Column(Filter(FirstSections, LAMBDA r : FillText(r.course) = course),
                LAMBDA r : Numeric(Col(r))))

\* C9: the page re-aggregates the report that already holds a 'TOTAL' row:
\* that row is not counted as a section, and the grand totals of the page and
\* of the worksheet and the subtotal of every course are the totals of the
\* section rows aggregated once.
C9_ReaggregationSameTotals ==
  report.kind = "instructor_web" =>
    /\ ~report.failed
    /\ report.orig = report.first.orig /\ report.gen = report.first.gen
    /\ report.sheet_orig = report.first.orig /\ report.sheet_gen = report.first.gen
    /\ Cardinality({i \in 1..Len(report.rows) : Layout[i].tag = "sec"})
         = Len(report.first.rows) - 1
    /\ \A k \in 1..Len(report.rows) :
         Layout[k].tag = "sub" =>
           LET course == report.rows[LayoutRunStart(Layout, k)].course
           IN  /\ report.rows[k].tfte = CourseSum(course, LAMBDA r : r.tfte)
               /\ report.rows[k].gen = CourseSum(course, LAMBDA r : r.gen)

\* the Meeting Times of the rows of the instructor with the section name
GroupTimes(fac, name) ==
  {dean_df[k].mt : k \in {j \in 1..Len(dean_df) :
                            dean_df[j].fac = fac /\ dean_df[j].name = name}}

\* C10: remove_duplicate_sections keeps exactly one row per Sec Name, the one
\* with the smallest Meeting Times; a row without Meeting Times is kept only
\* when no row of its section has one.
C10_OneRowPerSectionSmallestTime ==
  report.kind = "instructor_web" =>
    LET kept == FirstSections
        fac  == report.arg
    IN  /\ \A i, j \in 1..Len(kept) : kept[i].name = kept[j].name => i = j
        /\ {kept[i].name : i \in 1..Len(kept)}
             = {dean_df[k].name : k \in {j \in 1..Len(dean_df) : dean_df[j].fac = fac}}
        /\ \A i \in 1..Len(kept) :
             LET times == GroupTimes(fac, kept[i].name)
             IN  /\ kept[i].mt \in times
                 /\ \A t \in times : ~IsNaN(t) => (~IsNaN(kept[i].mt) /\ kept[i].mt <= t)
                 /\ IsNaN(kept[i].mt) => times = {NaN}

\* a section with rows of Meeting Times 1, 2 and none, the row without
\* Meeting Times first in the dataset
C10_Witness ==
  /\ report.kind = "instructor_web"
  /\ \E i \in 1..Len(FirstSections) :
       /\ GroupTimes(report.arg, FirstSections[i].name) = {1, 2, NaN}
       /\ FirstSections[i].mt = 1
  /\ IsNaN(dean_df[1].mt)

\* the tables remove_duplicate_sections is given: the upload, the loaded
\* dataset, and every instructor's rows of it (options4.py:134-136)
DedupInputs ==
  {file_in, dean_df}
  \cup {Filter(dean_df, LAMBDA r : r.fac = f) : f \in FacInputs}

\* C11: deduplication is idempotent: for every table t,
\* remove_duplicate_sections(remove_duplicate_sections(t)) is
\* remove_duplicate_sections(t).
C11_DeduplicationIdempotent ==
  \A t \in DedupInputs :
     remove_duplicate_sections(remove_duplicate_sections(t))
       = remove_duplicate_sections(t)

\* an instructor report over a section that has three rows: deduplication
\* removed two of them
C11_Witness ==
  /\ report.kind = "instructor_console"
  /\ \E t \in DedupInputs :
       /\ Len(t) = 3
       /\ Len(remove_duplicate_sections(t)) = 1
       /\ \A i \in 1..3 : t[i].fac = report.arg

\* the uploads that hold the rows of file_in in another order
Reorderings ==
  LET n == Len(file_in)
      perms == {p \in [1..n -> 1..n] : \A i, j \in 1..n : p[i] = p[j] => i = j}
  IN  {[i \in 1..n |-> file_in[p[i]]] : p \in perms}

Rows(seq) == {seq[i] : i \in 1..Len(seq)}

\* the rows each deduplicating call site keeps, for the dataset read from an
\* upload: remove_duplicate_sections on an instructor's rows, and the
\* drop_duplicates of the two course views and the two enrollment views
KeptByInstructor(d) ==
  [f \in FacInputs |->
     Rows(remove_duplicate_sections(Filter(d, LAMBDA r : r.fac = f)))]

KeptByCourseWeb(d) ==
  [c \in CourseCodes |-> Rows(DropDuplicates(Filter(d, LAMBDA r : r.code = c)))]

KeptByCourseConsole(d) ==
  [c \in CourseCodes |->
     Rows(DropDuplicates(Filter(WithLooseCode(d), LAMBDA r : r.code = c)))]

KeptByEnrollmentConsole(d) ==
  [t \in CourseInputs |->
     Rows(DropDuplicates(Filter(d, LAMBDA r : ContainsNoCase(r.name, t))))]

C12_InstructorPart ==
  \A u \in Reorderings :
     KeptByInstructor(readfile(u, fte_file_in))
       = KeptByInstructor(readfile(file_in, fte_file_in))

C12_CourseWebPart ==
  \A u \in Reorderings :
     KeptByCourseWeb(readfile(u, fte_file_in))
       = KeptByCourseWeb(readfile(file_in, fte_file_in))

C12_CourseConsolePart ==
  \A u \in Reorderings :
     KeptByCourseConsole(readfile(u, fte_file_in))
       = KeptByCourseConsole(readfile(file_in, fte_file_in))

C12_EnrollmentPart ==
  \A u \in Reorderings :
     KeptByEnrollmentConsole(readfile(u, fte_file_in))
       = KeptByEnrollmentConsole(readfile(file_in, fte_file_in))

\* C12: the row that survives deduplication for a section does not depend on
\* the order of the rows in the source: for every reordering of the upload,
\* every deduplicating call site keeps the same row for each Sec Name.
C12_SurvivorIndependentOfSourceOrder ==
  loaded =>
    /\ C12_InstructorPart
    /\ C12_CourseWebPart
    /\ C12_CourseConsolePart
    /\ C12_EnrollmentPart

\* the columns of the upload in a row of the loaded dataset
Uploaded(r) == Row(r.name, r.mt, r.cap, r.hc, r.div, r.fac)

\* how many rows of seq are the row r
Copies(seq, r) == Cardinality({i \in 1..Len(seq) : seq[i] = r})

\* the contact hours the reference table holds for the course code of a
\* section identifier (none for an identifier without course code)
ReferenceHours(name) ==
  {fte_file_in[k].ch : k \in {j \in 1..Len(fte_file_in) :
       /\ ExtractCode(name) # NaNStr
       /\ ExtractCode(fte_file_in[j].name) = ExtractCode(name)}}

\* every row of the upload is once in the loaded dataset
C13_EachRowOnce ==
  loaded =>
    \A r \in Rows(file_in) :
       Copies([i \in 1..Len(dean_df) |-> Uploaded(dean_df[i])], r) = Copies(file_in, r)

\* a matched section carries the contact hours of its reference row
C13_MatchedHours ==
  loaded =>
    \A i \in 1..Len(dean_df) :
       ReferenceHours(dean_df[i].name) # {}
         => dean_df[i].ch \in ReferenceHours(dean_df[i].name)

\* an unmatched section has no contact hours
C13_UnmatchedNaN ==
  loaded =>
    \A i \in 1..Len(dean_df) :
       ReferenceHours(dean_df[i].name) = {} => IsNaN(dean_df[i].ch)

\* C13: the reference join is a left join on course code: every row of the
\* upload is exactly once in the joined table, with the contact hours of the
\* reference row of its course code, and a section whose course code has no
\* match in the reference table (a section without course code included) has
\* undefined (NaN) contact hours.
C13_LeftJoinOnCourseCode ==
  /\ C13_EachRowOnce
  /\ C13_MatchedHours
  /\ C13_UnmatchedNaN

\* 3 uppercase letters, a hyphen, 3 digits and at most one uppercase letter
IsCourseCode(t) ==
  /\ Len(t) \in {7, 8}
  /\ \A k \in 1..3 : t[k] \in Upper
  /\ t[4] = "-"
  /\ \A k \in 5..7 : t[k] \in Digit
  /\ Len(t) = 8 => t[8] \in Upper

\* the substrings of an identifier that are course codes, as <<start, length>>
CodeSubstrings(s) ==
  IF s = NaNStr THEN {}
  ELSE {p \in (1..Len(s)) \X {7, 8} :
          /\ p[1] + p[2] - 1 <= Len(s)
          /\ IsCourseCode(SubSeq(s, p[1], p[1] + p[2] - 1))}

\* the course code of an identifier: the leftmost such substring, with its
\* trailing letter when it has one; NaNStr when there is none
CourseCodeOf(s) ==
  IF CodeSubstrings(s) = {} THEN NaNStr
  ELSE LET i == SetMin({p[1] : p \in CodeSubstrings(s)})
           n == SetMax({p[2] : p \in {q \in CodeSubstrings(s) : q[1] = i}})
       IN  SubSeq(s, i, i + n - 1)

\* the 'Course Code' column readfile derives
C14_ReadfilePart ==
  loaded =>
    \A i \in 1..Len(file_in) :
       ExtractCode(file_in[i].name) = CourseCodeOf(file_in[i].name)

\* the course codes get_course_codes derives for the instructor report
C14_GetCourseCodesPart ==
  report.kind = "instructor_console" =>
    LET frame == InstructorFrame(dean_df, fte_tier, report.arg)
    IN  Rows(InstructorCourseCodes(frame))
          = {CourseCodeOf(frame[i].name) : i \in 1..Len(frame)} \ {NaNStr}

\* C14: course-code extraction returns, for every section identifier, the
\* substring made of 3 uppercase letters, a hyphen, 3 digits and at most one
\* trailing uppercase letter, and no match when the identifier has no such
\* substring ("ENG-111A-01" gives "ENG-111A", "ENG111" gives no match).
C14_ExtractionReturnsCourseCode ==
  /\ C14_ReadfilePart
  /\ C14_GetCourseCodesPart

\* the rows of the instructor the console report is about, deduplicated
ReportedFrame == InstructorFrame(dean_df, fte_tier, report.arg)

\* the course codes the instructor sheet shows
SheetCourses ==
  {report.rows[i].course : i \in 1..Len(report.rows)} \ {Empty, LblTotal}

\* C15: course-code extraction never raises: a missing section identifier
\* and an identifier that is a number count as no match, and the other
\* identifiers of the same table are still processed (get_column_uniques and
\* get_course_codes of the console instructor report).
C15_ExtractionNeverRaises ==
  report.kind = "instructor_console" =>
    /\ ~report.failed
    /\ report.rows # <<>>
    /\ \A i \in 1..Len(ReportedFrame) :
         LET name == ReportedFrame[i].name
         IN  /\ name \in {NaNStr, NumberName, ShortName} =>
                 \A c \in SheetCourses : ~ContainsNoCase(name, c)
             /\ CourseCodeOf(name) # NaNStr => CourseCodeOf(name) \in SheetCourses

\* an instructor with a blank identifier, or a numeric one, and a section of
\* ENG-111: the sheet lists ENG-111
C15_Witness ==
  /\ report.kind = "instructor_console"
  /\ \E i, j \in 1..Len(ReportedFrame) :
       /\ ReportedFrame[i].name = NaNStr
       /\ ReportedFrame[j].name = ENG_111_01
  /\ SheetCourses = {<<"E","N","G","-","1","1","1">>}

\* the section rows of a table that have the identifier name
ListedAs(rows, sections, name) == {i \in sections : rows[i].name = name}

\* no 'Total' row closes a group made of the section row at i
NoSubtotalFor(rows, totals, i) == (i + 1) \notin totals

\* the division view: the sections without course code of the division shown
C16_DivisionPart ==
  DivisionReported =>
    LET rows == report.rows
        secs == DivSections(rows)
    IN  /\ \A k \in 1..Len(dean_df) :
             (dean_df[k].div = rows[1].division
                /\ CourseCodeOf(dean_df[k].name) = NaNStr)
               => ListedAs(rows, secs, dean_df[k].name) # {}
        /\ \A i \in secs :
             CourseCodeOf(rows[i].name) = NaNStr
               => NoSubtotalFor(rows, DivTotals(rows), i)

\* the console instructor sheet: the sections without course code of the
\* instructor
C16_InstructorPart ==
  report.kind = "instructor_console" =>
    LET rows == report.rows
        secs == {i \in 1..Len(rows) : rows[i].course # LblTotal}
    IN  /\ \A k \in 1..Len(ReportedFrame) :
             CourseCodeOf(ReportedFrame[k].name) = NaNStr
               => ListedAs(rows, secs, ReportedFrame[k].name) # {}
        /\ \A i \in secs :
             CourseCodeOf(rows[i].name) = NaNStr
               => NoSubtotalFor(rows, DivTotals(rows), i)

\* the web instructor page: the sections without course code of the
\* instructor
C16_InstructorPagePart ==
  (report.kind = "instructor_web" /\ ~report.failed) =>
    \A k \in 1..Len(report.first.rows) :
       (report.first.rows[k].course # LblTOTAL
          /\ CourseCodeOf(report.first.rows[k].name) = NaNStr)
         => \E i \in 1..Len(report.rows) : report.rows[i].name = report.first.rows[k].name

\* C16: a section whose identifier yields no course code is excluded from
\* per-course grouping (it starts no course group and no subtotal row is
\* emitted for it) but is still a section row of the flat listing of the
\* report, in the division view and in the instructor view.
C16_NoCodeSectionListedNotGrouped ==
  /\ C16_DivisionPart
  /\ C16_InstructorPart

ZeroPct == << "0", "%" >>

NotAvailablePct == << "N", "/", "A", "%" >>

\* the section rows of the batch path: the frame that
\* calculate_enrollment_percentage completed, in the web instructor report
BatchRows ==
  IF report.kind = "instructor_web"
  THEN SelectSeq(report.first.rows, LAMBDA r : r.course # LblTOTAL)
  ELSE <<>>

\* the rows of the dedicated enrollment report (calc_enrollment per row)
DedicatedRows ==
  IF report.kind = "enrollment_console" THEN report.rows ELSE <<>>

C17_BatchCase ==
  \E i, j \in 1..Len(BatchRows) :
     /\ BatchRows[i].cap = 0
     /\ BatchRows[j].cap = 40
     /\ BatchRows[j].enr = << "5", "0", ".", "0", "%" >>

\* a capacity or a head count is missing in the row
MissingInput(r) == IsNaN(r.cap) \/ IsNaN(r.hc)

\* C18: for a missing capacity or head count every enrollment-percentage
\* path (row-wise calc_enrollment and vectorized
\* calculate_enrollment_percentage) yields "N/A%"; no path raises, every one
\* returns a text.
C18_MissingInputIsNotAvailable ==
  /\ \A i \in 1..Len(DedicatedRows) :
       MissingInput(DedicatedRows[i]) => DedicatedRows[i].enr = NotAvailablePct
  /\ \A i \in 1..Len(BatchRows) :
       MissingInput(BatchRows[i]) => BatchRows[i].enr = NotAvailablePct

\* the row-wise half of C18 alone
C18_RowWisePart ==
  \A i \in 1..Len(DedicatedRows) :
     MissingInput(DedicatedRows[i]) => DedicatedRows[i].enr = NotAvailablePct

\* the vectorized half of C18 alone
C18_VectorizedPart ==
  \A i \in 1..Len(BatchRows) :
     MissingInput(BatchRows[i]) => BatchRows[i].enr = NotAvailablePct

\* the row has a positive capacity and a numeric head count
Computable(r) == r.cap > 0 /\ r.hc >= 0

\* headcount / capacity * 100 with exactly two decimals and '%'
TwoDecimals(r) == PctText2(RoundHalfEven(r.hc * 10000, r.cap))

\* headcount / capacity * 100 with one decimal and '%'
OneDecimal(r) == PctText1(RoundHalfEven(r.hc * 1000, r.cap)) \o << "%" >>

\* the rows of the report shown, when it is of one of the kinds
RowsOfKind(kinds) == IF report.kind \in kinds THEN report.rows ELSE <<>>

\* every computable row of the reports of the kinds is rendered with two decimals
RendersTwoDecimals(kinds) ==
  \A i \in 1..Len(RowsOfKind(kinds)) :
     Computable(RowsOfKind(kinds)[i])
       => RowsOfKind(kinds)[i].enr = TwoDecimals(RowsOfKind(kinds)[i])

\* calc_enrollment, division_fte and fte_per_course
C19_ConsolePaths ==
  RendersTwoDecimals({"enrollment_console", "division_console", "course_console"})

\* fte_by_div_raw
C19_WebDivisionPath == RendersTwoDecimals({"division_web"})

\* calculate_fte_by_course
C19_WebCoursePath == RendersTwoDecimals({"course_web"})

\* calculate_enrollment_percentage
C19_VectorizedPath ==
  \A i \in 1..Len(BatchRows) :
     Computable(BatchRows[i]) => BatchRows[i].enr = OneDecimal(BatchRows[i])

\* C19: whenever capacity > 0 and the head count is numeric, every
\* section-level row path (calc_enrollment, fte_by_div_raw,
\* calculate_fte_by_course, division_fte, fte_per_course) renders
\* headcount / capacity * 100 with exactly two decimal places and a '%'
\* suffix, and the vectorized path renders it with one decimal place.
C19_EnrollmentDecimals ==
  /\ C19_ConsolePaths
  /\ C19_WebDivisionPath
  /\ C19_WebCoursePath
  /\ C19_VectorizedPath

\* a web division table with a section of capacity 40 and head count 20
C19_WebDivisionCase ==
  \E i \in 1..Len(RowsOfKind({"division_web"})) :
     /\ RowsOfKind({"division_web"})[i].cap = 40
     /\ RowsOfKind({"division_web"})[i].hc = 20
     /\ RowsOfKind({"division_web"})[i].enr = << "5", "0", ".", "0", "%" >>

\* the rows of the loaded dataset with the section name of a report row
LoadedAs(name) == {k \in 1..Len(dean_df) : dean_df[k].name = name}

\* the vectorized path: generate_fte / compute_fte, called directly and for
\* the web instructor report
C20_VectorizedPart ==
  /\ report.kind = "generate_fte" =>
       \A i \in 1..Len(report.data) :
         (~HasPrefix(report.data[i].name) \/ IsNaN(report.data[i].tfte))
           => report.gen[i] = 0
  /\ \A i \in 1..Len(BatchRows) :
       (~HasPrefix(BatchRows[i].name) \/ IsNaN(BatchRows[i].tfte))
         => BatchRows[i].gen = 0

\* the row walk of fte_by_div_raw: a section row without usable name
C20_DivisionNamePart ==
  (report.kind = "division_web" /\ ~report.nodata) =>
    \A i \in DivSections(report.rows) :
       ~HasPrefix(report.rows[i].name) => report.rows[i].gen = 0

\* the row walks of fte_by_div_raw and calculate_fte_by_course: a section
\* row without Total FTE
C20_RowWalkTotalFtePart ==
  (report.kind \in {"division_web", "course_web"} /\ ~report.nodata) =>
    \A i \in 1..Len(report.rows) :
       (/\ report.rows[i].cap # Blank
        /\ LoadedAs(report.rows[i].name) # {}
        /\ \A k \in LoadedAs(report.rows[i].name) : IsNaN(dean_df[k].tfte))
         => report.rows[i].gen = 0

\* C20: a per-row error while computing Generated FTE (section name missing
\* or shorter than 3 characters, Total FTE missing) is absorbed for that
\* row, which gets Generated FTE 0, and the report is produced, in the
\* vectorized path (generate_fte / compute_fte) and in the row-walk paths
\* (fte_by_div_raw, calculate_fte_by_course).
C20_RowErrorsGiveZero ==
  /\ C20_VectorizedPart
  /\ C20_DivisionNamePart
  /\ C20_RowWalkTotalFtePart

\* generate_fte on a dataset with a section without name that has a Total
\* FTE, and a section with a name
C20_VectorizedCase ==
  /\ report.kind = "generate_fte"
  /\ \E i, j \in 1..Len(report.data) :
       /\ report.data[i].name = NaNStr /\ report.data[i].tfte > 0
       /\ report.gen[i] = 0
       /\ HasPrefix(report.data[j].name) /\ report.gen[j] > 0

\* a value in thousandths of a dollar, to the cent
Cents(x) == RoundHalfEven(x, 10)

\* the section rows of the table of a web page and the rows of its chart data
PageSections ==
  IF report.kind = "division_web" /\ ~report.nodata
  THEN SelectSeq(report.rows, LAMBDA r : r.course \notin {LblTotal, LblDivisionTotal})
  ELSE IF report.kind = "course_web" /\ ~report.nodata
  THEN SelectSeq(report.rows, LAMBDA r : r.name # LblCourseTotal)
  ELSE <<>>

PagePlot ==
  IF report.kind \in {"division_web", "course_web"} /\ ~report.nodata
  THEN report.plot ELSE <<>>

\* the chart rows that carry the section name and, to the cent, the value
Parsed(name, gen) ==
  {k \in 1..Len(PagePlot) :
     PagePlot[k].name = name /\ Cents(PagePlot[k].gen_float) = Cents(gen)}

Computed(name, gen) ==
  {i \in 1..Len(PageSections) :
     PageSections[i].name = name /\ Cents(PageSections[i].gen) = Cents(gen)}

C21_DivisionCase ==
  /\ report.kind = "division_web"
  /\ \E k \in 1..Len(PagePlot) :
       /\ PagePlot[k].gen = <<"$","3",",","6","1","1",".","2","5","0">>
       /\ PagePlot[k].gen_float = 3611250

\* the rows of the loaded dataset that the filter of the report shown matches
Matched ==
  IF report.kind = "division_web"
  THEN {k \in 1..Len(dean_df) : dean_df[k].div = StrUpper(report.arg)}
  ELSE IF report.kind = "course_web"
  THEN {k \in 1..Len(dean_df) : dean_df[k].code = StrUpper(report.arg)}
  ELSE IF report.kind = "faculty_report"
  THEN {k \in 1..Len(dean_df) : dean_df[k].fac = report.arg}
  ELSE {0}

\* the explicit no-data result: no table, totals 0
NoDataResult ==
  /\ report.rows = <<>>
  /\ report.orig = 0 /\ report.gen = 0
  /\ report.kind \in {"division_web", "course_web"} => report.nodata

\* the division and course reports
C22_DivisionAndCoursePart ==
  (report.kind \in {"division_web", "course_web"} /\ Matched = {}) => NoDataResult

\* the instructor report
C22_InstructorPart ==
  (report.kind = "faculty_report" /\ Matched = {}) => NoDataResult

\* C22: when the requested filter (division, course code or instructor)
\* matches zero rows, the report function (fte_by_div_raw,
\* calculate_fte_by_course, generate_faculty_fte_report) returns an explicit
\* no-data result (no table, totals 0) and not a table holding only a total
\* row.
C22_NoDataResult ==
  /\ C22_DivisionAndCoursePart
  /\ C22_InstructorPart

\* a division report and a course report on a filter that matches no row
C22_DivisionCase ==
  /\ report.kind = "division_web" /\ Matched = {} /\ NoDataResult

C22_CourseCase ==
  /\ report.kind = "course_web" /\ Matched = {} /\ NoDataResult

\* an input file is missing and the request ended the process: an exception
\* left main(), or main() caught it outside the menu loop
EndedByStructuralError ==
  /\ missing # {}
  /\ report.kind = "process_end"
  /\ report.cause \in {"TypeError", "FileNotFoundError"}

\* the process may end through option 6 only
C23_ProcessKeepsRunning == ~EndedByStructuralError

\* a request leaves the loaded dataset as it is
C23_DatasetUnchanged == [][(loaded /\ missing # {}) => dean_df' = dean_df]_vars

\* C23: a structural error (an input table missing) aborts only the current
\* report request: in the console program every menu option then returns to
\* the menu prompt, the process keeps running until option 6 is chosen, and
\* the loaded dataset is left unchanged.
C23_StructuralErrorAbortsRequestOnly ==
  []C23_ProcessKeepsRunning /\ C23_DatasetUnchanged

\* with FTE_Tier.xlsx missing the course report asks again and the enrollment
\* report is produced
C23_CourseCase ==
  /\ missing = {"FTE_Tier.xlsx"}
  /\ report.kind = "course_console" /\ report.again
  /\ report.arg = <<"E","N","G","-","1","1","1">>

\* the requests that end the process, by option and exception
C23_Option2Case == EndedByStructuralError /\ report.option = "2"

C23_Option3TypeErrorCase ==
  EndedByStructuralError /\ report.option = "3" /\ report.cause = "TypeError"

C23_Option3TierCase ==
  EndedByStructuralError /\ report.option = "3" /\ report.cause = "FileNotFoundError"

C23_Option4Case == EndedByStructuralError /\ report.option = "4"

C23_Option5Case == EndedByStructuralError /\ report.option = "5"

\* the section rows of a course report, each with the row of the loaded
\* dataset it was computed from (the first of its section name)
CourseSections ==
  IF \/ (report.kind = "course_web" /\ ~report.nodata)
     \/ (report.kind = "course_console" /\ ~report.again)
  THEN {i \in 1..Len(report.rows) : report.rows[i].name # LblCourseTotal
                                     /\ report.rows[i].course # LblCourseTotal}
  ELSE {}

SourceRow(name) == dean_df[SetMin(LoadedAs(name))]

CourseBase == IF report.kind = "course_web" THEN report.base ELSE 1926

\* the multiplier of section row i of the course report is the tier value of key
CourseKeyedBy(i, key) ==
  report.rows[i].gen = OrZero(SourceRow(report.rows[i].name).tfte)
                       * (Multiplier(key) + CourseBase)

\* the faculty and division tools key by the first 3 characters of the
\* section name
C24_PrefixTools ==
  /\ \A i \in 1..Len(BatchRows) :
       (HasPrefix(BatchRows[i].name) /\ ~IsNaN(BatchRows[i].tfte)) =>
         BatchRows[i].gen = BatchRows[i].tfte
                            * (Multiplier(Prefix3(BatchRows[i].name)) + 1926)
  /\ (report.kind = "division_web" /\ ~report.nodata) =>
       \A i \in DivSections(report.rows) :
         HasPrefix(report.rows[i].name) =>
           report.rows[i].gen = report.rows[i].tfte
                                * (Multiplier(Prefix3(report.rows[i].name)) + 1926)

C24_ConsoleCase ==
  /\ report.kind = "course_console"
  /\ \E i \in CourseSections :
       /\ Multiplier(SourceRow(report.rows[i].name).code) = 300
       /\ report.rows[i].gen = 1250 * 2026

(***************************************************************************)
(* C25: the course code is shown once per course group                     *)
(***************************************************************************)
\* a row of a section: its second column is no label of a total
IsSectionRow(r) == r.course \notin {LblTotal, LblDivisionTotal, LblCourseTotal}

\* the later section rows of one group: a section row right after another
LaterRows(rows) ==
  {i \in 2..Len(rows) : IsSectionRow(rows[i]) /\ IsSectionRow(rows[i - 1])}

LaterRowsBlank(rows) == \A i \in LaterRows(rows) : rows[i].course = Empty

\* the division and course reports, and the workbook of options4
C25_WalkPart ==
  (report.kind \in {"division_web", "division_console", "course_web",
                    "course_console", "instructor_console"})
    => LaterRowsBlank(report.rows)

\* the workbook of the page "FTE per Instructor" (save_faculty_excel)
C25_PageWorkbookPart ==
  (report.kind = "instructor_web") => LaterRowsBlank(report.sheet)

\* C25: in the output of every view the course code is shown only on the
\* first section row of each course group; every later section row of the
\* group has a blank in that column
C25_CodeShownOncePerGroup ==
  /\ C25_WalkPart
  /\ C25_PageWorkbookPart

\* a division report with a later section row, its code left blank
C25_DivisionCase ==
  /\ report.kind \in {"division_web", "division_console"}
  /\ LaterRows(report.rows) # {}

\* a workbook of options4 with a later section row, its code left blank
C25_ConsoleWorkbookCase ==
  /\ report.kind = "instructor_console"
  /\ LaterRows(report.rows) # {}

\* a workbook of the page whose later section row repeats the course code
C25_PageWorkbookCase ==
  /\ report.kind = "instructor_web"
  /\ \E i \in LaterRows(report.sheet) :
       /\ report.sheet[i].course # Empty
       /\ report.sheet[i].course = report.sheet[i - 1].course

(***************************************************************************)
(* C26: one course code per section identifier                             *)
(***************************************************************************)
\* the codes the call sites derive from one identifier: the join of readfile
\* and total_ftes, the division view, the instructor view, get_course_codes
CodesDerived(s) ==
  {ExtractCode(s), ExtractCodeLoose(s), ExtractCodeVariant(s), MatchCodeAtStart(s)}

\* the section identifiers of the upload, the blank cells left out
Identifiers == {file_in[i].name : i \in 1..Len(file_in)} \ {NaNStr}

\* C26: all call sites that derive a course code from a section identifier
\* (the join in readfile, the division view, the instructor view,
\* get_course_codes, total_ftes) return the same code for the same
\* identifier, so that a section is in the same course group in every report
C26_SameCodeAtEveryCallSite ==
  loaded => \A s \in Identifiers : Cardinality(CodesDerived(s)) = 1

\* a dataset on whose identifiers the call sites agree, a code found
C26_AgreeCase ==
  /\ loaded /\ Identifiers # {}
  /\ \A s \in Identifiers : CodesDerived(s) \in {{t} : t \in {SubSeq(s, 1, 7)}}

\* the division view groups a section under another code than the
\* instructor view
C26_TwoGroupsCase ==
  /\ report.kind = "division_web"
  /\ \E i \in 1..Len(report.rows) :
       /\ report.rows[i].course \notin {Empty, LblTotal, NaNStr}
       /\ report.rows[i].course # ExtractCodeVariant(report.rows[i].name)

(***************************************************************************)
(* C27: the console and the web division report agree                      *)
(***************************************************************************)
\* what the claim compares in a row: its label or course code, its section
\* and its numeric Generated FTE
NumericRows(rows) ==
  [i \in 1..Len(rows) |->
     [course |-> rows[i].course, name |-> rows[i].name, gen |-> rows[i].gen]]

\* the report of division_fte against the one of fte_by_div_raw, to which
\* format_fte_output adds the 'DIVISION TOTAL' row
SameDivisionReport(console, web) ==
  /\ console.nodata = web.nodata
  /\ ~web.nodata =>
       /\ NumericRows(console.rows)
            = NumericRows(Append(web.rows, DivisionTotalRow(Blank, web.gen)))
       /\ console.orig = web.orig
       /\ console.gen = web.gen

\* the report made, against the report of the other program on the same
\* dataset, tier table and division
ReportsAgree ==
  /\ report.kind = "division_web" =>
       SameDivisionReport(division_fte(dean_df, fte_tier, report.arg), report)
  /\ report.kind = "division_console" =>
       SameDivisionReport(report, fte_by_div_raw(dean_df, fte_tier, report.arg))

\* C27: for the same dataset, tier table and division, division_fte of the
\* console and fte_by_div_raw followed by format_fte_output of the web
\* produce the same sequence of rows (section, 'Total', 'DIVISION TOTAL')
\* with the same numeric Generated FTE in each row and the same two grand
\* totals
C27_ConsoleAndWebDivisionAgree == ReportsAgree

\* the two reports agree on the divisions stored in capitals
C27_CapitalsPart ==
  (/\ report.kind \in {"division_web", "division_console"}
   /\ \A k \in 1..Len(dean_df) :
         StrUpper(dean_df[k].div) = StrUpper(report.arg)
           => dean_df[k].div = StrUpper(report.arg))
    => ReportsAgree

\* a division with two courses on which both programs report the same rows
C27_AgreeCase ==
  /\ report.kind = "division_web" /\ ~report.nodata
  /\ Cardinality({i \in 1..Len(report.rows) : report.rows[i].course = LblTotal}) > 1
  /\ ReportsAgree

\* a division the console reports and the web does not
C27_ConsoleOnlyCase ==
  /\ report.kind = "division_console" /\ ~report.nodata
  /\ fte_by_div_raw(dean_df, fte_tier, report.arg).nodata

(***************************************************************************)
(* C28: a division of the dataset always has a report                      *)
(***************************************************************************)
\* all_divisions of the page: the values of 'Sec Divisions', blanks dropped
PresentDivisions ==
  {dean_df[k].div : k \in 1..Len(dean_df)} \ {NaNStr}

\* the sections of the report are the rows of the division, none left out
DivisionRowsReturned ==
  /\ ~report.nodata
  /\ Cardinality({i \in 1..Len(report.rows) :
                    report.rows[i].course \notin {LblTotal, LblDivisionTotal}})
       = Cardinality({k \in 1..Len(dean_df) : dean_df[k].div = report.arg})

\* C28: for every division value present in the 'Sec Divisions' column of
\* the dataset, whatever its letter case, fte_by_div_raw called with that
\* value returns the rows and totals of the division, never the no-data
\* result
C28_PresentDivisionHasRows ==
  (report.kind = "division_web" /\ report.arg \in PresentDivisions)
    => DivisionRowsReturned

\* a division written in capitals is reported
C28_UpperCaseCase ==
  /\ report.kind = "division_web" /\ report.arg \in PresentDivisions
  /\ report.arg = StrUpper(report.arg)
  /\ DivisionRowsReturned

\* a division written with small letters gets the no-data result
C28_MixedCaseCase ==
  /\ report.kind = "division_web" /\ report.arg \in PresentDivisions
  /\ report.arg # StrUpper(report.arg)
  /\ report.nodata

(***************************************************************************)
(* C29, C30: the prompt of the console instructor report                   *)
(***************************************************************************)
PromptTurn == report.kind \in {"instructor_prompt", "instructor_console"}

\* C29: in the prompt of fte_per_faculty a name that matches no instructor
\* makes the loop prompt again: option 4 never fails for lack of a selected
\* instructor (matches[0] of an empty list)
C29_NoMatchPromptsAgain ==
  (report.kind = "process_end" /\ report.option = "4")
    => report.cause # "IndexError"

\* the loop prompts again after the entry of the commands or of nothing
C29_AgainCase ==
  /\ report.kind = "instructor_prompt"
  /\ ~report.asked /\ ~report.back

\* the k-th listed instructor for a number k of the list, no one otherwise
Listed(choice, matches) ==
  IF IsDigit(choice) /\ NatValue(choice) \in 1..Len(matches)
  THEN matches[NatValue(choice)]
  ELSE NoneStr

\* C30: when n > 1 instructors are listed, a number k in 1..n selects the
\* k-th listed instructor and any other entry restarts the search
C30_NumberSelectsListed ==
  (PromptTurn /\ report.asked) =>
    IF Listed(report.choice, report.matches) # NoneStr
    THEN /\ report.kind = "instructor_console"
         /\ report.arg = Listed(report.choice, report.matches)
    ELSE report.kind = "instructor_prompt" /\ ~report.back

\* a number below n selects the instructor listed under it
C30_SelectedCase ==
  /\ report.kind = "instructor_console" /\ report.asked
  /\ Len(report.matches) > 1
  /\ report.arg = report.matches[NatValue(report.choice)]

\* the number n of a list of n restarts the search
C30_LastNumberCase ==
  /\ report.kind = "instructor_prompt" /\ report.asked
  /\ IsDigit(report.choice)
  /\ NatValue(report.choice) = Len(report.matches)

\* an entry that is no number of the list restarts the search
C30_RestartCase ==
  /\ report.kind = "instructor_prompt" /\ report.asked
  /\ Listed(report.choice, report.matches) = NoneStr

====
